---- MODULE Spec2Model ----
(***************************************************************************)
(* Page translation engine of llm-translation-extension.                   *)
(*                                                                         *)
(* The model follows src/unnamed/part_008 (PageTranslator), the            *)
(* RegexRenderer of src/unnamed/part_009, the Translator of                *)
(* src/src/translator/llm/translator.ts and the consuming loop and stop    *)
(* handler of src/src/pages/content/index.tsx.                             *)
(*                                                                         *)
(* A string is a sequence of one-character strings.  The DOM is an arena:  *)
(* a sequence of node records, a node's identity being its index.          *)
(***************************************************************************)
EXTENDS Integers, Sequences, FiniteSets, TLC

(***************************************************************************)
(* Strings                                                                 *)
(***************************************************************************)

\* Characters that String.prototype.trim removes (only the blank is used).
WhiteSpace == {" "}

\* Characters matched by RX_LETTER = /\p{L}/u among those the model uses.
Letters ==
  {"a", "b", "c", "d", "e", "f", "t", "x", "y", "z", "A", "B", "C", "X", "Y"}

RECURSIVE trimStart(_)
trimStart(s) ==
  IF s = <<>> THEN <<>>
  ELSE IF Head(s) \in WhiteSpace THEN trimStart(Tail(s)) ELSE s

RECURSIVE trimEnd(_)
trimEnd(s) ==
  IF s = <<>> THEN <<>>
  ELSE IF s[Len(s)] \in WhiteSpace THEN trimEnd(SubSeq(s, 1, Len(s) - 1)) ELSE s

\* String.prototype.trim
trim(s) == trimEnd(trimStart(s))

\* RX_LETTER.test(text)
hasLetter(s) == \E k \in 1..Len(s) : s[k] \in Letters

\* s.startsWith(p, at position k)
startsWithAt(s, p, k) ==
  /\ k + Len(p) - 1 <= Len(s)
  /\ \A j \in 1..Len(p) : s[k + j - 1] = p[j]

\* String.prototype.includes
includes(s, p) == \E k \in 1..(Len(s) + 1) : startsWithAt(s, p, k)

\* String.prototype.replaceAll(p, "") for a non-empty p
RECURSIVE removeAll(_, _)
removeAll(s, p) ==
  IF s = <<>> THEN <<>>
  ELSE IF startsWithAt(s, p, 1) THEN removeAll(SubSeq(s, Len(p) + 1, Len(s)), p)
  ELSE <<Head(s)>> \o removeAll(Tail(s), p)

OpenBraces == <<"{", "{">>
CloseBraces == <<"}", "}">>

(***************************************************************************)
(* RegexRenderer (no escaping)                                             *)
(***************************************************************************)

\* A context is a sequence of [k, v] pairs in assignment order; a later
\* assignment to the same key overwrites an earlier one.
\* The context is a plain object: it inherits the properties of
\* Object.prototype.  Each entry is the name of a property and the text
\* that String() gives for its value (for a built-in function the text is
\* the one V8 prints).
FunctionPrefix ==
  <<"f", "u", "n", "c", "t", "i", "o", "n", " ">>

NativeCode ==
  <<"(", ")", " ", "{", " ", "[", "n", "a", "t", "i", "v", "e", " ",
    "c", "o", "d", "e", "]", " ", "}">>

ObjectPrototype ==
  <<
    [k |->
       <<"c", "o", "n", "s", "t", "r", "u", "c", "t", "o", "r">>,
     v |-> FunctionPrefix \o
       <<"O", "b", "j", "e", "c", "t">>
           \o NativeCode],
    [k |->
       <<"h", "a", "s", "O", "w", "n", "P", "r", "o", "p", "e", "r",
         "t", "y">>,
     v |-> FunctionPrefix \o
       <<"h", "a", "s", "O", "w", "n", "P", "r", "o", "p", "e", "r",
         "t", "y">>
           \o NativeCode],
    [k |->
       <<"i", "s", "P", "r", "o", "t", "o", "t", "y", "p", "e", "O", "f">>,
     v |-> FunctionPrefix \o
       <<"i", "s", "P", "r", "o", "t", "o", "t", "y", "p", "e", "O", "f">>
           \o NativeCode],
    [k |->
       <<"p", "r", "o", "p", "e", "r", "t", "y", "I", "s", "E", "n",
         "u", "m", "e", "r", "a", "b", "l", "e">>,
     v |-> FunctionPrefix \o
       <<"p", "r", "o", "p", "e", "r", "t", "y", "I", "s", "E", "n",
         "u", "m", "e", "r", "a", "b", "l", "e">>
           \o NativeCode],
    [k |->
       <<"t", "o", "L", "o", "c", "a", "l", "e", "S", "t", "r", "i",
         "n", "g">>,
     v |-> FunctionPrefix \o
       <<"t", "o", "L", "o", "c", "a", "l", "e", "S", "t", "r", "i",
         "n", "g">>
           \o NativeCode],
    [k |->
       <<"t", "o", "S", "t", "r", "i", "n", "g">>,
     v |-> FunctionPrefix \o
       <<"t", "o", "S", "t", "r", "i", "n", "g">>
           \o NativeCode],
    [k |->
       <<"v", "a", "l", "u", "e", "O", "f">>,
     v |-> FunctionPrefix \o
       <<"v", "a", "l", "u", "e", "O", "f">>
           \o NativeCode],
    [k |->
       <<"_", "_", "d", "e", "f", "i", "n", "e", "G", "e", "t", "t",
         "e", "r", "_", "_">>,
     v |-> FunctionPrefix \o
       <<"_", "_", "d", "e", "f", "i", "n", "e", "G", "e", "t", "t",
         "e", "r", "_", "_">>
           \o NativeCode],
    [k |->
       <<"_", "_", "d", "e", "f", "i", "n", "e", "S", "e", "t", "t",
         "e", "r", "_", "_">>,
     v |-> FunctionPrefix \o
       <<"_", "_", "d", "e", "f", "i", "n", "e", "S", "e", "t", "t",
         "e", "r", "_", "_">>
           \o NativeCode],
    [k |->
       <<"_", "_", "l", "o", "o", "k", "u", "p", "G", "e", "t", "t",
         "e", "r", "_", "_">>,
     v |-> FunctionPrefix \o
       <<"_", "_", "l", "o", "o", "k", "u", "p", "G", "e", "t", "t",
         "e", "r", "_", "_">>
           \o NativeCode],
    [k |->
       <<"_", "_", "l", "o", "o", "k", "u", "p", "S", "e", "t", "t",
         "e", "r", "_", "_">>,
     v |-> FunctionPrefix \o
       <<"_", "_", "l", "o", "o", "k", "u", "p", "S", "e", "t", "t",
         "e", "r", "_", "_">>
           \o NativeCode],
    [k |->
       <<"_", "_", "p", "r", "o", "t", "o", "_", "_">>,
     v |->
       <<"[", "o", "b", "j", "e", "c", "t", " ", "O", "b", "j", "e",
         "c", "t", "]">>]
  >>

hasOwn(ctx, key) == \E j \in 1..Len(ctx) : ctx[j].k = key

\* key in context: an own property or an inherited one
inContext(ctx, key) == hasOwn(ctx, key) \/ hasOwn(ObjectPrototype, key)

\* context[key], as the string String.prototype.replace makes of it
contextGet(ctx, key) ==
  LET from == IF hasOwn(ctx, key) THEN ctx ELSE ObjectPrototype
      J == {j \in 1..Len(from) : from[j].k = key}
      last == CHOOSE j \in J : \A j2 \in J : j2 <= j
  IN from[last].v

\* Index of the first "}" of s at or after k, or 0.
RECURSIVE firstClose(_, _)
firstClose(s, k) ==
  IF k > Len(s) THEN 0
  ELSE IF s[k] = "}" THEN k ELSE firstClose(s, k + 1)

\* End index of a match of DEFAULT_PATTERN = /\{\{([^}]+)\}\}/ that starts
\* at k, or 0 when the pattern does not match there.
matchEnd(s, k) ==
  IF ~startsWithAt(s, OpenBraces, k) THEN 0
  ELSE LET q == firstClose(s, k + 2)
       IN IF q > k + 2 /\ startsWithAt(s, CloseBraces, q) THEN q + 1 ELSE 0

RECURSIVE renderFrom(_, _, _)
renderFrom(s, k, ctx) ==
  IF k > Len(s) THEN <<>>
  ELSE LET e == matchEnd(s, k)
       IN IF e = 0 THEN <<s[k]>> \o renderFrom(s, k + 1, ctx)
          ELSE LET variableName == SubSeq(s, k + 2, e - 2)
                   cleanVariableName == trim(variableName)
                   out == IF inContext(ctx, cleanVariableName)
                          THEN contextGet(ctx, cleanVariableName)
                          ELSE SubSeq(s, k, e)
               IN out \o renderFrom(s, e + 1, ctx)

\* RegexRenderer.render(template, context) of the engine's renderer, which
\* is not strict
render(template, ctx) ==
  IF template = <<>> THEN template ELSE renderFrom(template, 1, ctx)

\* The names pushed to missingVariables while the template is scanned.
RECURSIVE missingVariables(_, _, _)
missingVariables(s, k, ctx) ==
  IF k > Len(s) THEN <<>>
  ELSE LET e == matchEnd(s, k)
       IN IF e = 0 THEN missingVariables(s, k + 1, ctx)
          ELSE LET cleanVariableName == trim(SubSeq(s, k + 2, e - 2))
               IN (IF inContext(ctx, cleanVariableName) THEN <<>>
                   ELSE <<cleanVariableName>>)
                    \o missingVariables(s, e + 1, ctx)

\* Array.prototype.join(", ")
RECURSIVE join(_)
join(names) ==
  IF names = <<>> THEN <<>>
  ELSE IF Len(names) = 1 THEN names[1]
  ELSE names[1] \o <<",", " ">> \o join(Tail(names))

MissingMessage ==
  <<"M", "i", "s", "s", "i", "n", "g", " ", "v", "a", "r", "i", "a",
    "b", "l", "e", "s", " ", "i", "n", " ", "t", "e", "m", "p", "l",
    "a", "t", "e", ":", " ">>

\* RegexRenderer.render(template, context) of a renderer configured with
\* strictMode: what it returns, or the message of the Error it throws.
renderStrictMode(strict, template, ctx) ==
  IF template = <<>> THEN [threw |-> FALSE, message |-> <<>>, text |-> template]
  ELSE LET missing == missingVariables(template, 1, ctx)
       IN IF strict /\ missing # <<>>
          THEN [threw |-> TRUE, message |-> MissingMessage \o join(missing),
                text |-> <<>>]
          ELSE [threw |-> FALSE, message |-> <<>>,
                text |-> renderFrom(template, 1, ctx)]

(***************************************************************************)
(* extractDomain                                                           *)
(*                                                                         *)
(* A URL string is a sequence of lexical tokens: a scheme name, "://",     *)
(* host labels, ".", ":", a port number, "/", a path segment, and the      *)
(* bracketed IPv6 literal "[::1]".                                         *)
(***************************************************************************)

\* The schemes of the pages the content script runs in.
Schemes == {"https", "http"}

\* Labels made of digits only.
Numbers == {"0", "1"}

\* String.prototype.toLowerCase of a host label (the URL parser's
\* domain-to-ASCII step)
toLowerCase(label) == IF label = "COM" THEN "com" ELSE label

\* Index of the first token t of s at or after k, or 0.
RECURSIVE firstToken(_, _, _)
firstToken(s, t, k) ==
  IF k > Len(s) THEN 0
  ELSE IF s[k] = t THEN k ELSE firstToken(s, t, k + 1)

\* String.prototype.split("."): the labels between the dots; an empty label
\* is "".
RECURSIVE split(_)
split(host) ==
  LET q == firstToken(host, ".", 1)
  IN IF q = 0 THEN <<IF host = <<>> THEN "" ELSE host[1]>>
     ELSE <<IF q = 1 THEN "" ELSE host[1]>> \o split(SubSeq(host, q + 1, Len(host)))

\* Array.prototype.join("."): the empty label contributes no token.
RECURSIVE joinDots(_)
joinDots(parts) ==
  LET head == IF parts[1] = "" THEN <<>> ELSE <<parts[1]>>
  IN IF Len(parts) = 1 THEN head
     ELSE head \o <<".">> \o joinDots(Tail(parts))

\* The URL parser's IPv4 parser for a host that ends in a number: every
\* label must be a number and there are at most four; the last number
\* fills the remaining bytes.  <<>> stands for failure.
parseIPv4(parts) ==
  IF Len(parts) > 4 \/ \E k \in 1..Len(parts) : parts[k] \notin Numbers
  THEN <<>>
  ELSE joinDots(SubSeq(parts, 1, Len(parts) - 1)
                  \o [k \in 1..(4 - Len(parts)) |-> "0"]
                  \o <<parts[Len(parts)]>>)

\* The URL parser's host parser for these schemes: it lower-cases the host
\* and turns a host that ends in a number into dotted IPv4.  <<>> stands
\* for failure.
parseHost(host) ==
  IF host = <<"[::1]">> THEN host
  ELSE IF host = <<>> THEN <<>>
  ELSE LET parts == split(host)
           labels == IF Len(parts) > 1 /\ parts[Len(parts)] = ""
                     THEN SubSeq(parts, 1, Len(parts) - 1) ELSE parts
       IN IF labels[Len(labels)] \in Numbers THEN parseIPv4(labels)
          ELSE [k \in 1..Len(host) |-> toLowerCase(host[k])]

\* new URL(s).hostname: [threw, hostname].  The authority ends at the first
\* "/"; what follows a ":" in it must be a port number.
URLhostname(s) ==
  IF Len(s) < 2 \/ s[1] \notin Schemes \/ s[2] # "://"
  THEN [threw |-> TRUE, hostname |-> <<>>]
  ELSE LET slash == firstToken(s, "/", 3)
           authority == SubSeq(s, 3, IF slash = 0 THEN Len(s) ELSE slash - 1)
           colon == firstToken(authority, ":", 1)
           host == IF colon = 0 THEN authority ELSE SubSeq(authority, 1, colon - 1)
           port == IF colon = 0 THEN <<>>
                   ELSE SubSeq(authority, colon + 1, Len(authority))
           hostname == parseHost(host)
       IN IF port \notin {<<>>, <<"8080">>} \/ hostname = <<>>
          THEN [threw |-> TRUE, hostname |-> <<>>]
          ELSE [threw |-> FALSE, hostname |-> hostname]

\* ipv4Regex = /^(\d{1,3}\.){3}\d{1,3}$/
ipv4Regex(hostname) ==
  /\ Len(hostname) = 7
  /\ \A k \in 1..7 : IF k % 2 = 1 THEN hostname[k] \in Numbers ELSE hostname[k] = "."

\* extractDomain(url)
extractDomain(s) ==
  LET urlToProcess == IF firstToken(s, "://", 1) = 0
                      THEN <<"https", "://">> \o s ELSE s
      urlObj == URLhostname(urlToProcess)
      hostname == urlObj.hostname
  IN IF urlObj.threw THEN <<"unknown">>
     ELSE IF ipv4Regex(hostname) THEN hostname
     ELSE IF hostname = <<"[::1]">> THEN hostname
     ELSE IF hostname = <<"localhost">> \/ firstToken(hostname, ".", 1) # 0
          THEN LET parts == split(hostname)
               IN IF Len(parts) >= 2
                  THEN joinDots(SubSeq(parts, Len(parts) - 1, Len(parts)))
                  ELSE hostname
     ELSE <<"unknown">>

(***************************************************************************)
(* DOM                                                                     *)
(*                                                                         *)
(* A node is [kind, tag, dt, orig, kids, value, parent, shadow]:           *)
(*   kind    "text", "elem" or "sroot" (a shadow root)                     *)
(*   dt      the data-translation attribute: "none", "true" or "false"     *)
(*   orig    the data-original-text attribute: serialized markup, <<>>     *)
(*           when absent or empty (both are falsy to the code)             *)
(*   kids    child node ids in document order                              *)
(*   value   nodeValue of a text node                                      *)
(*   parent  parentNode, 0 when detached                                   *)
(*   shadow  the attached shadow root of an element, 0 when none           *)
(* Serialized markup (innerHTML) is a sequence of items                    *)
(*   [kind |-> "text", value] and [kind |-> "elem", tag, dt, orig, kids].  *)
(***************************************************************************)

SKIP_TAGS ==
  {"SCRIPT", "STYLE", "NOSCRIPT", "TEXTAREA", "CODE", "PRE", "INPUT", "BUTTON",
   "SELECT", "OPTION"}

MIN_TEXT_LENGTH == 2

TextNode(v, p) ==
  [kind |-> "text", tag |-> "", dt |-> "none", orig |-> <<>>, kids |-> <<>>,
   value |-> v, parent |-> p, shadow |-> 0]

ElemNode(t, ks, p) ==
  [kind |-> "elem", tag |-> t, dt |-> "none", orig |-> <<>>, kids |-> ks,
   value |-> <<>>, parent |-> p, shadow |-> 0]

HostNode(t, ks, p, sh) ==
  [kind |-> "elem", tag |-> t, dt |-> "none", orig |-> <<>>, kids |-> ks,
   value |-> <<>>, parent |-> p, shadow |-> sh]

ShadowRootNode(ks) ==
  [kind |-> "sroot", tag |-> "", dt |-> "none", orig |-> <<>>, kids |-> ks,
   value |-> <<>>, parent |-> 0, shadow |-> 0]

TextItem(v) == [kind |-> "text", value |-> v]

\* Node.parentElement: the parent when it is an element, else null (0).
parentElement(d, n) ==
  LET p == d[n].parent
  IN IF p # 0 /\ d[p].kind = "elem" THEN p ELSE 0

\* Descendants of id in document order (id excluded), filtered by kind.
RECURSIVE descendants(_, _, _)
RECURSIVE descendantsOfList(_, _, _)
descendants(d, id, kind) == descendantsOfList(d, d[id].kids, kind)

descendantsOfList(d, ids, kind) ==
  IF ids = <<>> THEN <<>>
  ELSE (IF d[Head(ids)].kind = kind THEN <<Head(ids)>> ELSE <<>>)
       \o descendants(d, Head(ids), kind)
       \o descendantsOfList(d, Tail(ids), kind)

RECURSIVE concatValues(_, _)
concatValues(d, ids) ==
  IF ids = <<>> THEN <<>> ELSE d[Head(ids)].value \o concatValues(d, Tail(ids))

\* Node.textContent of an element
textContent(d, id) == concatValues(d, descendants(d, id, "text"))

\* PageTranslator.normalizeText
normalizeText(d, n) == trim(d[n].value)

\* A filter that takes a node only under an element without any
\* data-translation attribute.
acceptUnmarkedOnly(d, n) ==
  LET parentElem == parentElement(d, n)
      text == normalizeText(d, n)
  IN /\ d[n].kind = "text"
     /\ parentElem # 0
     /\ d[parentElem].tag \notin SKIP_TAGS
     /\ d[parentElem].dt = "none"
     /\ text # <<>>
     /\ hasLetter(text)

\* PageTranslator.acceptTextNodeFilter
acceptTextNodeFilter(d, n) ==
  LET parentElem == parentElement(d, n)
      text == normalizeText(d, n)
  IN /\ d[n].kind = "text"
     /\ parentElem # 0
     /\ d[parentElem].tag \notin SKIP_TAGS
     /\ d[parentElem].dt # "true"
     /\ text # <<>>
     /\ hasLetter(text)

RECURSIVE filterAccepted(_, _)
filterAccepted(d, ids) ==
  IF ids = <<>> THEN <<>>
  ELSE (IF acceptTextNodeFilter(d, Head(ids)) THEN <<Head(ids)>> ELSE <<>>)
       \o filterAccepted(d, Tail(ids))

\* PageTranslator.collectTextNodes and collectTextNodesShadowDOM
RECURSIVE collectTextNodes(_, _)
RECURSIVE collectInShadowRoots(_, _)
collectTextNodesShadowDOM(d, rootElem) ==
  collectInShadowRoots(d, SelectSeq(descendants(d, rootElem, "elem"),
                                     LAMBDA e : d[e].shadow # 0))

\* A collector that puts the shadow trees in front of the light DOM.
collectShadowFirst(d, rootElement) ==
  collectTextNodesShadowDOM(d, rootElement)
    \o filterAccepted(d, descendants(d, rootElement, "text"))

collectTextNodes(d, rootElement) ==
  filterAccepted(d, descendants(d, rootElement, "text"))
    \o collectTextNodesShadowDOM(d, rootElement)

collectInShadowRoots(d, hosts) ==
  IF hosts = <<>> THEN <<>>
  ELSE collectTextNodes(d, d[Head(hosts)].shadow)
       \o collectInShadowRoots(d, Tail(hosts))

\* element.querySelectorAll('[data-translation="true"]'): a static list of
\* the matching descendants in document order, the element itself excluded.
translatedElements(d, element) ==
  SelectSeq(descendants(d, element, "elem"), LAMBDA e : d[e].dt = "true")

\* Element.innerHTML (getter).  Contiguous text serializes to one run.
RECURSIVE serialize(_, _)
mergeText(items) ==
  IF Len(items) >= 2 /\ items[1].kind = "text" /\ items[2].kind = "text"
  THEN <<TextItem(items[1].value \o items[2].value)>> \o SubSeq(items, 3, Len(items))
  ELSE items

serialize(d, ids) ==
  IF ids = <<>> THEN <<>>
  ELSE LET n == d[Head(ids)]
           rest == serialize(d, Tail(ids))
       IN IF n.kind = "text"
          THEN IF n.value = <<>> THEN rest ELSE mergeText(<<TextItem(n.value)>> \o rest)
          ELSE <<[kind |-> "elem", tag |-> n.tag, dt |-> n.dt, orig |-> n.orig,
                  kids |-> serialize(d, n.kids)]>> \o rest

\* The HTML parser: builds fresh nodes for the items under parent p.
RECURSIVE buildList(_, _, _)
RECURSIVE buildNode(_, _, _)
buildNode(d, p, it) ==
  LET id == Len(d) + 1
  IN IF it.kind = "text"
     THEN [d |-> Append(d, TextNode(it.value, p)), id |-> id]
     ELSE LET d1 == Append(d, [ElemNode(it.tag, <<>>, p) EXCEPT
                                 !.dt = it.dt, !.orig = it.orig])
              r == buildList(d1, id, it.kids)
          IN [d |-> [r.d EXCEPT ![id].kids = r.ids], id |-> id]

buildList(d, p, items) ==
  IF items = <<>> THEN [d |-> d, ids |-> <<>>]
  ELSE LET r1 == buildNode(d, p, Head(items))
           r2 == buildList(r1.d, p, Tail(items))
       IN [d |-> r2.d, ids |-> <<r1.id>> \o r2.ids]

RECURSIVE detachAll(_, _)
detachAll(d, ids) ==
  IF ids = <<>> THEN d
  ELSE detachAll([d EXCEPT ![Head(ids)].parent = 0], Tail(ids))

\* Element.innerHTML = items (setter): the old children are removed and the
\* parsed nodes take their place.
setInnerHTML(d, e, items) ==
  LET d1 == detachAll(d, d[e].kids)
      r == buildList(d1, e, items)
  IN [r.d EXCEPT ![e].kids = r.ids]

\* The character "<" abbreviates the opening tag '<span class="translated-term">'
\* and ">" the closing tag '</span>'.
SpanSignature == <<"<">>

RECURSIVE indexOf(_, _, _)
indexOf(s, c, k) ==
  IF k > Len(s) THEN Len(s) + 1
  ELSE IF s[k] = c THEN k ELSE indexOf(s, c, k + 1)

\* tempDiv.innerHTML = translatedText: the items the parser produces.  An
\* unclosed span is closed at the end of the input.
RECURSIVE parseMarkup(_)
parseMarkup(s) ==
  IF s = <<>> THEN <<>>
  ELSE IF Head(s) = "<"
  THEN LET close == indexOf(s, ">", 2)
           inner == SubSeq(s, 2, close - 1)
       IN <<[kind |-> "elem", tag |-> "SPAN", dt |-> "none", orig |-> <<>>,
             kids |-> IF inner = <<>> THEN <<>> ELSE <<TextItem(inner)>>]>>
          \o parseMarkup(SubSeq(s, close + 1, Len(s)))
  ELSE LET open == indexOf(s, "<", 1)
       IN <<TextItem(SubSeq(s, 1, open - 1))>>
          \o parseMarkup(SubSeq(s, open, Len(s)))

\* parent.replaceChild(fragment, node), the fragment holding the parsed items
replaceChild(d, parent, node, items) ==
  LET pos == CHOOSE k \in 1..Len(d[parent].kids) : d[parent].kids[k] = node
      r == buildList([d EXCEPT ![node].parent = 0], parent, items)
  IN [r.d EXCEPT ![parent].kids =
        SubSeq(d[parent].kids, 1, pos - 1) \o r.ids
          \o SubSeq(d[parent].kids, pos + 1, Len(d[parent].kids))]

\* PageTranslator.updateTextNode(node, translatedText, isTranslated)
\* updateTextNode storing the element's content on every write, whether or
\* not a marker is there already.
updateTextNodeStoringAgain(d, node, translatedText, isTranslated) ==
  IF d[node].parent # 0 /\ d[node].value # translatedText
  THEN LET parent == d[node].parent
           pe == parentElement(d, node)
           d1 == IF pe # 0 /\ ~isTranslated
                 THEN [d EXCEPT
                         ![pe].orig = serialize(d, d[pe].kids),
                         ![pe].dt = "true"]
                 ELSE d
       IN IF includes(translatedText, SpanSignature)
          THEN replaceChild(d1, parent, node, parseMarkup(translatedText))
          ELSE [d1 EXCEPT ![node].value = translatedText]
  ELSE d

updateTextNode(d, node, translatedText, isTranslated) ==
  IF d[node].parent # 0 /\ d[node].value # translatedText
  THEN LET parent == d[node].parent
           pe == parentElement(d, node)
           d1 == IF pe # 0 /\ ~isTranslated
                 THEN [d EXCEPT
                         ![pe].orig = IF d[pe].orig = <<>>
                                      THEN serialize(d, d[pe].kids)
                                      ELSE d[pe].orig,
                         ![pe].dt = "true"]
                 ELSE d
       IN IF includes(translatedText, SpanSignature)
          THEN replaceChild(d1, parent, node, parseMarkup(translatedText))
          ELSE [d1 EXCEPT ![node].value = translatedText]
  ELSE d

\* PageTranslator.restoreOriginalTextFromDataAttributes: forEach over the
\* static list of marked elements.
RECURSIVE restoreEach(_, _)
restoreEach(d, elements) ==
  IF elements = <<>> THEN d
  ELSE LET element == Head(elements)
           originalHTML == d[element].orig
           d1 == IF originalHTML # <<>>
                 THEN [setInnerHTML(d, element, originalHTML) EXCEPT
                         ![element].dt = "false"]
                 ELSE d
       IN restoreEach(d1, Tail(elements))

restoreOriginalTextFromDataAttributes(d, element) ==
  restoreEach(d, translatedElements(d, element))

\* PageTranslator.restoreOriginalText
restoreOriginalText(d, rootElement) ==
  restoreOriginalTextFromDataAttributes(d, rootElement)

(***************************************************************************)
(* Glossary                                                                *)
(*                                                                         *)
(* A term is [original, translated, template] (the description is carried  *)
(* along by the code and never read); a category is [name, terms].         *)
(***************************************************************************)

\* The context applyTermsReplacement builds, in forEach order.
RECURSIVE termsContext(_)
termsContext(terms) ==
  IF terms = <<>> THEN <<>>
  ELSE LET term == Head(terms)
       IN (IF term.translated # <<>> /\ term.translated # term.original
           THEN <<[k |-> removeAll(removeAll(term.template, OpenBraces), CloseBraces),
                   v |-> term.translated]>>
           ELSE <<>>)
          \o termsContext(Tail(terms))

RECURSIVE categoriesContext(_)
categoriesContext(cats) ==
  IF cats = <<>> THEN <<>>
  ELSE termsContext(Head(cats).terms) \o categoriesContext(Tail(cats))

\* PageTranslator.applyTermsReplacement
applyTermsReplacement(text, cats) == render(text, categoriesContext(cats))

\* PageTranslator.findTextNodeInElement: the first text node of the subtree
findTextNodeInElement(d, element) ==
  LET texts == descendants(d, element, "text")
  IN IF texts = <<>> THEN 0 ELSE Head(texts)

RECURSIVE applyEach(_, _, _)
applyEach(d, elements, cats) ==
  IF elements = <<>> THEN d
  ELSE LET textNode == findTextNodeInElement(d, Head(elements))
           d1 == IF textNode # 0
                 THEN updateTextNode(d, textNode,
                        applyTermsReplacement(d[textNode].value, cats), TRUE)
                 ELSE d
       IN applyEach(d1, Tail(elements), cats)

\* PageTranslator.applyTermsReplacementToAllNodes
applyTermsReplacementToAllNodes(d, element, cats) ==
  applyEach(d, translatedElements(d, element), cats)

\* A forEach that pushes every new term without looking for its original.
pushAllNewTerms(terms, newTerms) == terms \o newTerms

\* The forEach of PageTranslator.addNewTerms: a term is pushed only when no
\* entry of the category has the same original.
RECURSIVE pushNewTerms(_, _)
pushNewTerms(terms, newTerms) ==
  IF newTerms = <<>> THEN terms
  ELSE LET term == Head(newTerms)
           exists == \E j \in 1..Len(terms) : terms[j].original = term.original
       IN pushNewTerms(IF exists THEN terms ELSE Append(terms, term), Tail(newTerms))

\* currentTerms.find((cat) => cat.name === "General"): its index, or 0
findGeneral(cats) ==
  IF \E j \in 1..Len(cats) : cats[j].name = "General"
  THEN CHOOSE j \in 1..Len(cats) :
         /\ cats[j].name = "General"
         /\ \A j2 \in 1..(j - 1) : cats[j2].name # "General"
  ELSE 0

\* The synchronous part of PageTranslator.addNewTerms: the glossary after
\* the General category was found or created and the new terms pushed.
addNewTerms(cats, newTerms) ==
  LET cats1 == IF findGeneral(cats) = 0
               THEN Append(cats, [name |-> "General", terms |-> <<>>])
               ELSE cats
      g == findGeneral(cats1)
  IN [cats1 EXCEPT ![g].terms = pushNewTerms(cats1[g].terms, newTerms)]

\* hasNewTerms of addNewTerms
hasNewTerms(cats, newTerms) ==
  LET g == findGeneral(cats)
  IN \E j \in 1..Len(newTerms) :
       g = 0 \/ \A j2 \in 1..Len(cats[g].terms) :
                  cats[g].terms[j2].original # newTerms[j].original

\* category.terms.filter((term) => !term.translated), as a set of originals
untranslatedOriginals(terms) ==
  {terms[j].original : j \in {j2 \in 1..Len(terms) : terms[j2].translated = <<>>}}

\* termsToTranslate of PageTranslator.translateNewTerms, as a set of originals
termsToTranslate(terms, newTerms) ==
  {terms[j].original : j \in {j2 \in 1..Len(terms) :
      /\ \E m \in 1..Len(newTerms) : newTerms[m].original = terms[j2].original
      /\ terms[j2].translated = <<>>}}

\* The translation the language model gives for a term.
TermTranslation(original) == <<"z">> \o original

\* OpenAILLMTranslator.translateTerms, the part after the model answered:
\* updatedTerms maps the category's terms as they are when the answer
\* arrives; `answered` are the originals the model returned a translation for.
updatedTerms(terms, answered) ==
  [j \in 1..Len(terms) |->
     IF terms[j].original \in answered /\ TermTranslation(terms[j].original) # <<>>
     THEN [terms[j] EXCEPT !.translated = TermTranslation(terms[j].original)]
     ELSE terms[j]]

(***************************************************************************)
(* Token usage                                                             *)
(***************************************************************************)

ZeroUsage == [promptTokens |-> 0, completionTokens |-> 0, totalTokens |-> 0]

\* The usage one Translator call reports.
CallUsage == [promptTokens |-> 2, completionTokens |-> 1, totalTokens |-> 3]

addUsage(a, b) ==
  [promptTokens |-> a.promptTokens + b.promptTokens,
   completionTokens |-> a.completionTokens + b.completionTokens,
   totalTokens |-> a.totalTokens + b.totalTokens]

(***************************************************************************)
(* Pages, seed glossaries and Translator answers                           *)
(***************************************************************************)

Body == 1

\* <body><p>ab<b>cd</b></p></body>
PageNested ==
  << ElemNode("BODY", <<2>>, 0), ElemNode("P", <<3, 4>>, 1),
     TextNode(<<"a", "b">>, 2), ElemNode("B", <<5>>, 2),
     TextNode(<<"c", "d">>, 4) >>

\* <body><p>ab<br> cd </p><code>ef</code><i>a</i></body>
PageShared ==
  << ElemNode("BODY", <<2, 6, 8>>, 0), ElemNode("P", <<3, 4, 5>>, 1),
     TextNode(<<"a", "b">>, 2), ElemNode("BR", <<>>, 2),
     TextNode(<<" ", "c", "d", " ">>, 2),
     ElemNode("CODE", <<7>>, 1), TextNode(<<"e", "f">>, 6),
     ElemNode("I", <<9>>, 1), TextNode(<<"a">>, 8) >>

Pages == {PageNested, PageShared}

\* The elements a caller passes as rootElement: document.body (the content
\* script) and the paragraph.
Roots == {1, 2}

PlaceholderX == <<"{", "{", "X", "}", "}">>

TermX(translated) ==
  [original |-> <<"X">>, translated |-> translated, template |-> PlaceholderX]

TermY(translated) ==
  [original |-> <<"Y">>, translated |-> translated,
   template |-> <<"{", "{", "Y", "}", "}">>]

\* The constructor arguments previousTerms and onTermsUpdated: a fresh
\* engine without save callback (pageTranslator.spec.ts), and an engine seeded
\* with a curated category and given the callback (index.tsx 84-99).
Engines ==
  { [previousTerms |-> <<>>, onTermsUpdated |-> FALSE],
    [previousTerms |-> << [name |-> "Curated", terms |-> <<TermY(<<>>)>>] >>,
     onTermsUpdated |-> TRUE] }

\* What translateText may resolve with for a text: a plain translation, the
\* text unchanged, and a translation holding the placeholder of term X that
\* is reported as a new term, untranslated or translated.
TextAnswers(currentText) ==
  { [translatedText |-> <<"t">> \o currentText, terms |-> <<>>, hasUsage |-> TRUE],
    [translatedText |-> currentText, terms |-> <<>>, hasUsage |-> FALSE],
    [translatedText |-> <<"t">> \o PlaceholderX, terms |-> <<TermX(<<>>)>>,
     hasUsage |-> TRUE],
    [translatedText |-> <<"t">> \o PlaceholderX, terms |-> <<TermX(<<"x">>)>>,
     hasUsage |-> TRUE] }

\* What translateText may reject with: an Error carrying a message, or a
\* value that is not an Error.
Rejections ==
  { [isError |-> TRUE, message |-> "network down"],
    [isError |-> FALSE, message |-> ""] }

\* A catch clause that records no message.
errorMessageLost(error) == ""

\* error instanceof Error ? error.message : "Translation failed"
errorMessage(error) ==
  IF error.isError THEN error.message ELSE "Translation failed"

\* A batch callback without the length test.
isShortNever(currentText) == FALSE

\* !currentText || currentText.length < MIN_TEXT_LENGTH
isShort(currentText) ==
  currentText = <<>> \/ Len(currentText) < MIN_TEXT_LENGTH

\* The value a batch promise resolves with.  error "" is undefined;
\* hasTranslated FALSE is translatedText undefined.
NodeResult(success, currentText, hasTranslated, translatedText, error) ==
  [success |-> success, currentText |-> currentText,
   hasTranslated |-> hasTranslated, translatedText |-> translatedText,
   error |-> error]

\* What a node's promise holds while it runs: the answer of translateText
\* (result), the originals sent to translateTerms (asked) and the terms the
\* translator returned (updated).
NodeState(currentText) ==
  [currentText |-> currentText, terms |-> <<>>, translatedText |-> <<>>,
   hasUsage |-> FALSE, asked |-> {}, updated |-> <<>>,
   res |-> NodeResult(FALSE, currentText, FALSE, <<>>, "")]

\* A snapshot that reports the nodes still to do in place of the total.
ProgressRemaining(current, total, res, usage) ==
  [current |-> current, total |-> total - current, currentText |-> res.currentText,
   hasTranslated |-> res.hasTranslated, translatedText |-> res.translatedText,
   usage |-> usage, error |-> res.error]

\* A progress snapshot the generator yields.
Progress(current, total, res, usage) ==
  [current |-> current, total |-> total, currentText |-> res.currentText,
   hasTranslated |-> res.hasTranslated, translatedText |-> res.translatedText,
   usage |-> usage, error |-> res.error]

InitialProgress(total, usage) ==
  [current |-> 0, total |-> total, currentText |-> <<>>,
   hasTranslated |-> FALSE, translatedText |-> <<>>, usage |-> usage,
   error |-> ""]

(***************************************************************************)
(* Bounds                                                                  *)
(***************************************************************************)

\* batchSize is drawn from 1..MaxBatchSize
MaxBatchSize == 2

\* translate is called at most MaxSessions times on one engine
MaxSessions == 2

\* restoreOriginalText is called at most MaxRestores times
MaxRestores == 1

(***************************************************************************)
(* The content script's sessions: async generators and their consumers     *)
(***************************************************************************)

\* startTranslation messages, stopTranslation messages, and the snapshots
\* a session yields before it returns (the first one before any node).
MaxStarts == 2
MaxStops == 1
MaxSnapshots == 2

\* One call of handleStartTranslation per startTranslation message; the
\* session a call creates, and its generator, carry the call's number.
Handlers == 1..MaxStarts

\* The values that travel between a generator and its consumers.
Undefined == [type |-> "undefined", session |-> 0, current |-> 0]

\* yield { current, total, usage }
TranslationProgress(g, n) == [type |-> "progress", session |-> g, current |-> n]

\* return { terms: this.currentTerms, totalUsage: this.totalUsage }
TranslationResult(g) == [type |-> "result", session |-> g, current |-> 0]

\* finalResult?.value?.terms
hasTerms(value) == value.type = "result"

IteratorResult(value, done) == [value |-> value, done |-> done]

\* The object translate() returns: an async generator.  Its requests
\* (next, return) queue up while the body runs; by is the handler that
\* awaits the answer, 0 when nobody does.
\*   state       "none", "suspendedStart", "executing", "suspendedYield",
\*               "completed"
\*   total       the snapshots the body yields before it returns
\*   yielded     the snapshots yielded so far
\*   returned    the body ran to its return statement
\*   returnedBy  who has called return() on it
NoGenerator ==
  [state |-> "none", total |-> 0, yielded |-> 0, queue |-> <<>>,
   returned |-> FALSE, returnedBy |-> {}]

NewGenerator(total) == [NoGenerator EXCEPT !.state = "suspendedStart", !.total = total]

\* The requests a generator can serve without running its body: a return
\* at a yield or before the start completes it (translate() has no finally
\* clause around its yields), a completed generator answers everything
\* with done.  A next at a yield or at the start resumes the body and
\* stays at the head of the queue until the body answers it.
RECURSIVE drainQueue(_, _)
drainQueue(g, settled) ==
  IF g.queue = <<>> \/ g.state = "executing"
  THEN [generator |-> g, settled |-> settled]
  ELSE LET pending == Head(g.queue) IN
    IF pending.kind = "next" /\ g.state # "completed"
    THEN [generator |-> [g EXCEPT !.state = "executing"], settled |-> settled]
    ELSE drainQueue(
           [g EXCEPT !.state = "completed", !.queue = Tail(@)],
           Append(settled,
             [to |-> pending.by,
              result |-> IteratorResult(
                IF pending.kind = "return" THEN pending.value ELSE Undefined,
                TRUE)]))

\* generator.next() and generator.return(value)
enqueue(g, req) ==
  drainQueue(
    [g EXCEPT !.queue = Append(@, req),
              !.returnedBy = IF req.kind = "return"
                             THEN @ \cup {req.by} ELSE @],
    <<>>)

nextRequest(by) == [kind |-> "next", by |-> by, value |-> Undefined]

returnRequest(by) == [kind |-> "return", by |-> by, value |-> Undefined]

\* The body reaches a yield: the next at the head of the queue is answered
\* with the snapshot, then the queue is served.
bodyYields(g, value) ==
  drainQueue(
    [g EXCEPT !.state = "suspendedYield", !.queue = Tail(@),
              !.yielded = @ + 1],
    << [to |-> Head(g.queue).by, result |-> IteratorResult(value, FALSE)] >>)

\* The body reaches its return statement.
bodyReturns(g, value) ==
  drainQueue(
    [g EXCEPT !.state = "completed", !.queue = Tail(@), !.returned = TRUE],
    << [to |-> Head(g.queue).by, result |-> IteratorResult(value, TRUE)] >>)

\* TranslationContentScript and the calls of its handlers.
\*   handler      per call of handleStartTranslation: "none", "refused",
\*                "loading" (awaits chrome.storage.local.get), "loop"
\*                (for await), "break" (the loop awaits return() after
\*                break), "awaitReturn", "awaitSave", "done"
\*   finalResult  per call: finalResult?.value
\*   jobs         the promise reactions that are due: whose await, and
\*                the value it gets
\*   sent         the messages sent with chrome.runtime.sendMessage
\*   starts, stops  messages handled so far
\* and, read by no handler:
\*   stopped      the sessions a stopTranslation message stopped
\*   overlapped   the calls made while an earlier call was loading the
\*                stored terms or translating
\*   cleared      <<h, s>> when the finally clause of call h cleared the
\*                flag that session s had set
NoScript ==
  [isTranslating |-> FALSE, currentTranslationGenerator |-> 0,
   translator |-> 0,
   handler |-> [h \in Handlers |-> "none"],
   generator |-> [h \in Handlers |-> NoGenerator],
   finalResult |-> [h \in Handlers |-> Undefined],
   jobs |-> <<>>, sent |-> <<>>, starts |-> 0, stops |-> 0,
   stopped |-> {}, overlapped |-> {}, cleared |-> {}]

Message(action, by, value) == [action |-> action, by |-> by, value |-> value]

\* chrome.runtime.sendMessage(message)
sendMessage(s, message) == [s EXCEPT !.sent = Append(@, message)]

\* A request to generator g, and the reactions of the answers that are
\* ready.
awaited(settled) == SelectSeq(settled, LAMBDA job : job.to # 0)

request(s, g, req) ==
  LET served == enqueue(s.generator[g], req)
  IN  [s EXCEPT !.generator[g] = served.generator,
                !.jobs = @ \o awaited(served.settled)]

\* finally { this.isTranslating = false;
\*           this.currentTranslationGenerator = null; }
finallyClause(s, h) ==
  [s EXCEPT !.isTranslating = FALSE, !.currentTranslationGenerator = 0,
            !.handler[h] = "done",
            !.cleared = IF s.isTranslating THEN @ \cup {<<h, s.translator>>}
                        ELSE @]

\* After the loop: if (this.isTranslating) { finalResult = await
\* this.currentTranslationGenerator?.return(undefined); ... }
afterLoop(s, h) ==
  IF ~s.isTranslating THEN finallyClause(s, h)
  ELSE IF s.currentTranslationGenerator = 0
       THEN [s EXCEPT !.handler[h] = "awaitReturn",
                      !.jobs = Append(@, [to |-> h,
                                 result |-> IteratorResult(Undefined, TRUE)])]
       ELSE request([s EXCEPT !.handler[h] = "awaitReturn"],
                    s.currentTranslationGenerator, returnRequest(h))

\* The continuation of call h when the promise it awaits is fulfilled
\* with result.
continue(s, h, result) ==
  CASE s.handler[h] = "loop" ->
         IF result.done THEN afterLoop(s, h)
         ELSE IF ~s.isTranslating
              THEN request([s EXCEPT !.handler[h] = "break"], h, returnRequest(h))
              ELSE request(
                     sendMessage(s, Message("translationProgress", h, result.value)),
                     h, nextRequest(h))
    [] s.handler[h] = "break" -> afterLoop(s, h)
    [] s.handler[h] = "awaitReturn" ->
         IF hasTerms(result.value)
         THEN sendMessage(
                [s EXCEPT !.handler[h] = "awaitSave",
                          !.finalResult[h] = result.value],
                Message("saveTerms", h, result.value))
         ELSE finallyClause(
                sendMessage(s, Message("translationComplete", h, result.value)),
                h)
    [] OTHER -> s

\* The stored terms are loaded: the session is created and its loop
\* starts.  The body of translate() runs to its first yield within the
\* first next().
startSession(s, h, total) ==
  LET created == [s EXCEPT !.translator = h, !.isTranslating = TRUE,
                           !.currentTranslationGenerator = h,
                           !.generator[h] = NewGenerator(total),
                           !.handler[h] = "loop"]
      called == request(created, h, nextRequest(h))
      first == bodyYields(called.generator[h], TranslationProgress(h, 0))
  IN  [called EXCEPT !.generator[h] = first.generator,
                     !.jobs = @ \o awaited(first.settled)]

\* An earlier call that is loading the stored terms, or whose session
\* translates and was not stopped.
busy(s) ==
  \E h \in Handlers :
    \/ s.handler[h] = "loading"
    \/ /\ s.handler[h] \in {"loop", "awaitReturn", "awaitSave"}
       /\ h \notin s.stopped

(***************************************************************************)
(* The background page: chrome.storage.local and the saveTerms handler     *)
(***************************************************************************)

\* saveTerms messages.
MaxSaves == 2

SaveRequests == 1..MaxSaves

\* The keys of translationTermsByDomain: the domains, and "unknown".
SavedDomains == {"a.com", "b.com"}

StoreKeys == SavedDomains \cup {"unknown"}

Glossaries == {"g1", "g2"}

\* The terms a message carries: a Category[] (named here by its
\* glossary), or an object of such arrays by domain; "" where a key is
\* absent.
NoDomains == [key \in StoreKeys |-> ""]

ArrayTerms(glossary) ==
  [isArray |-> TRUE, glossary |-> glossary, byDomain |-> NoDomains]

ObjectTerms(byDomain) ==
  [isArray |-> FALSE, glossary |-> "", byDomain |-> byDomain]

\* A key translationTermsByDomain does not hold.
Absent == ObjectTerms(NoDomains)

SavedTerms ==
  {ArrayTerms(glossary) : glossary \in Glossaries}
    \cup {ObjectTerms([NoDomains EXCEPT !["a.com"] = "g2"])}

\* "" is a message without a domain.
SaveMessages == [domain : SavedDomains \cup {""}, terms : SavedTerms]

\* if (domain) termsByDomain[domain] = terms;
\* else if (Array.isArray(terms)) termsByDomain["unknown"] = terms;
\* else Object.assign(termsByDomain, terms);
assignTerms(termsByDomain, domain, terms) ==
  IF domain # "" THEN [termsByDomain EXCEPT ![domain] = terms]
  ELSE IF terms.isArray THEN [termsByDomain EXCEPT !["unknown"] = terms]
  ELSE [key \in StoreKeys |->
          IF terms.byDomain[key] # "" THEN ArrayTerms(terms.byDomain[key])
          ELSE termsByDomain[key]]

\* The background page.
\*   translationTermsByDomain  the value chrome.storage.local holds
\*   request   per saveTerms message: where handleSaveTerms stands ("none",
\*             "get", "set", "query", "done", "failed"), its arguments and
\*             its termsByDomain
\*   saves     messages handled so far
NoRequest ==
  [at |-> "none", domain |-> "", terms |-> Absent,
   termsByDomain |-> [key \in StoreKeys |-> Absent]]

NoBackground ==
  [translationTermsByDomain |-> [key \in StoreKeys |-> Absent],
   request |-> [r \in SaveRequests |-> NoRequest],
   saves |-> 0]

(***************************************************************************)
(* State                                                                   *)
(***************************************************************************)

VARIABLES
  dom,             \* the document
  currentTerms,    \* PageTranslator.currentTerms
  totalUsage,      \* PageTranslator.totalUsage
  batchSize,       \* PageTranslator.batchSize
  onTermsUpdated,  \* whether the constructor was given the save callback
  gen,             \* where the generator of translate() stands
  rootElement,     \* the argument of the running or last translate()
  textNodes,       \* the nodes collected by the session
  i,               \* index of the first node of the current batch (from 1)
  emitted,         \* number of results of the current batch already yielded
  node,            \* per collected node: where its batch promise stands
  st,              \* per collected node: the data its promise holds
  completedCount,  \* completedCount of translate()
  category,        \* index of the category translateAllTerms is at
  asked,           \* originals sent by the pending call of translateAllTerms
  isTranslating,   \* TranslationContentScript.isTranslating
  returnQueued,    \* generator.return() was called and is not yet served
  progress,        \* the snapshots the session has yielded so far
  issued,          \* indices of the nodes translateText was called for
  sessions,        \* number of translate() calls so far
  restores,        \* number of restoreOriginalText() calls so far
  history,         \* what the last session was and what followed it
  template,        \* RegexRenderer.render: the template argument
  context,         \* RegexRenderer.render: the context argument
  strictMode,      \* RegexRenderer.config.strictMode
  rendered,        \* what render() returned or threw, <<>> before the call
  url,             \* extractDomain: the argument
  domain,          \* what extractDomain returned, <<>> before the call
  given,           \* the parts the argument of the call was written from
  script,          \* TranslationContentScript: its fields and its handlers
  background       \* the background page: its storage and its handlers

\* The variables of the two stand-alone functions, and of the engine.
pureVars == <<template, context, strictMode, rendered, url, domain, given>>

engineVars ==
  << dom, currentTerms, totalUsage, batchSize, onTermsUpdated, gen,
     rootElement, textNodes, i, emitted, node, st, completedCount, category,
     asked, isTranslating, returnQueued, progress, issued, sessions, restores,
     history >>

\* The variables of the content script's and of the background's handlers.
messageVars == <<script, background>>

vars == <<engineVars, pureVars, messageVars>>

N == Len(textNodes)

\* The indices of textNodes.slice(i): a loop that maps over all the nodes
\* left.
BatchOfRest == {k \in 1..N : i <= k}

\* The indices of textNodes.slice(i, i + batchSize)
Batch == {k \in 1..N : i <= k /\ k < i + batchSize}

\* The generator has ended: by its return statement, or by a return()
\* request served at a yield.
Ended == {"returned", "cancelled"}

\* No microtask is runnable: the session waits for a Translator call or for
\* the save callback.  Messages to the content script are handled only then.
Quiescent ==
  \/ /\ gen = "batch"
     /\ \A k \in Batch : node[k] \in {"awaitText", "awaitSave", "awaitTerms", "done"}
     /\ \E k \in Batch : node[k] # "done"
  \/ gen = "awaitAllTerms"

\* What is remembered of a session for stating properties; no operation
\* of the program reads it.
\*   phase          "none", "running", "completed" (returned, undisturbed),
\*                  "disturbed" (returned after a stop or a restore in
\*                  between), "cancelled", "restored" (completed, then
\*                  restoreOriginalText on the same root), "other"
\*   preText        textContent of the root when translate() was called
\*   preValues      nodeValue of each collected node at that moment
\*   preOwners      parentElement of each collected node at that moment
\*   stopAt         index of the first node of the batch in flight when the
\*                  stop message was handled, 0 when none was
\*   restoredIn     restoreOriginalText ran while the session was waiting
\*   reported       sum of the usage reported by the Translator calls that
\*                  resolved since translate() was called
\*   prevPhase, prevRoot, prevAllTranslated
\*                  phase and root of the session before, and whether
\*                  translateText was called and succeeded for each of its
\*                  collected nodes
HistoryValues(d, collected) == [k \in 1..Len(collected) |-> d[collected[k]].value]

HistoryOwners(d, collected) ==
  [k \in 1..Len(collected) |-> parentElement(d, collected[k])]

NoHistory ==
  [phase |-> "none", preText |-> <<>>, preValues |-> <<>>, preOwners |-> <<>>,
   stopAt |-> 0, restoredIn |-> FALSE, reported |-> ZeroUsage,
   prevPhase |-> "none", prevRoot |-> 0,
   prevAllTranslated |-> FALSE, prevFailed |-> {}, saved |-> <<>>,
   outOfOrder |-> FALSE, passTerms |-> <<>>, sent |-> {}, failed |-> {},
   saveRejected |-> {}]

\* No message has reached the content script or the background page.
NoMessages ==
  /\ script = NoScript
  /\ background = NoBackground

\* Neither stand-alone function has been called.
NoCalls ==
  /\ template = <<>>
  /\ context = <<>>
  /\ strictMode = FALSE
  /\ rendered = <<>>
  /\ url = <<>>
  /\ domain = <<>>
  /\ given = <<>>

Init ==
  /\ dom \in Pages
  /\ \E engine \in Engines :
       /\ currentTerms = engine.previousTerms
       /\ onTermsUpdated = engine.onTermsUpdated
  /\ totalUsage = ZeroUsage
  /\ batchSize \in 1..MaxBatchSize
  /\ gen = "none"
  /\ rootElement = 0
  /\ textNodes = <<>>
  /\ i = 1
  /\ emitted = 0
  /\ node = <<>>
  /\ st = <<>>
  /\ completedCount = 0
  /\ category = 1
  /\ asked = {}
  /\ isTranslating = FALSE
  /\ returnQueued = FALSE
  /\ progress = <<>>
  /\ issued = {}
  /\ sessions = 0
  /\ restores = 0
  /\ history = NoHistory
  /\ NoCalls
  /\ NoMessages

(***************************************************************************)
(* translate(): entry, batches, progress                                   *)
(***************************************************************************)

\* translate(rootElement) is called and its first snapshot consumed
\* (part_008 76-79; index.tsx 100-117).
BeginSession(r) ==
  /\ LET collected == collectTextNodes(dom, r)
     IN /\ textNodes' = collected
        /\ node' = [k \in 1..Len(collected) |-> "idle"]
        /\ st' = [k \in 1..Len(collected) |-> NodeState(<<>>)]
        /\ progress' = <<InitialProgress(Len(collected), totalUsage)>>
  /\ rootElement' = r
  /\ i' = 1
  /\ emitted' = 0
  /\ completedCount' = 0
  /\ isTranslating' = TRUE
  /\ returnQueued' = FALSE
  /\ issued' = {}
  /\ gen' = "loop"
  /\ sessions' = sessions + 1
  /\ history' = [phase |-> "running", preText |-> textContent(dom, r),
                 preValues |-> HistoryValues(dom, collectTextNodes(dom, r)),
                 preOwners |-> HistoryOwners(dom, collectTextNodes(dom, r)),
                 stopAt |-> 0, restoredIn |-> FALSE, reported |-> ZeroUsage,
                 prevPhase |-> history.phase, prevRoot |-> rootElement,
                 prevAllTranslated |->
                   \A k \in 1..N : st[k].res.success /\ k \in issued,
                 prevFailed |->
                   {textNodes[k] : k \in {k2 \in issued :
                      node[k2] = "done" /\ ~st[k2].res.success}},
                 saved |-> <<>>, outOfOrder |-> FALSE,
                 passTerms |-> <<>>, sent |-> {}, failed |-> {},
                 saveRejected |-> {}]
  /\ UNCHANGED <<dom, currentTerms, totalUsage, batchSize, onTermsUpdated,
                 category, asked, restores>>
  /\ UNCHANGED <<pureVars, messageVars>>

\* The first translate() of a fresh engine.
StartSession(r) ==
  /\ gen = "none"
  /\ BeginSession(r)

\* translate() is called again on the same engine after the previous
\* session has ended (pageTranslator.spec.ts 476-488).
TranslateAgain(r) ==
  /\ gen \in Ended
  /\ sessions < MaxSessions
  /\ BeginSession(r)

\* batch.map(async (node, batchIndex) => ...) up to the first await of each
\* node: a short text resolves at once, any other text is sent to
\* translateText (part_008 83-124).
StartBatch ==
  /\ gen = "loop"
  /\ i <= N
  /\ node' = [k \in 1..N |->
                IF k \in Batch
                THEN IF isShort(normalizeText(dom, textNodes[k]))
                     THEN "done" ELSE "awaitText"
                ELSE node[k]]
  /\ st' = [k \in 1..N |->
              IF k \in Batch
              THEN LET currentText == normalizeText(dom, textNodes[k])
                   IN IF isShort(currentText)
                      THEN [NodeState(currentText) EXCEPT
                              !.res = NodeResult(TRUE, currentText, TRUE,
                                                 currentText, "")]
                      ELSE NodeState(currentText)
              ELSE st[k]]
  /\ issued' = issued \cup
                 {k \in Batch : ~isShort(normalizeText(dom, textNodes[k]))}
  /\ gen' = "batch"
  /\ emitted' = 0
  /\ UNCHANGED <<dom, currentTerms, totalUsage, batchSize, onTermsUpdated,
                 rootElement, textNodes, i, completedCount, category, asked,
                 isTranslating, returnQueued, progress, sessions, restores,
                 history>>
  /\ UNCHANGED <<pureVars, messageVars>>

\* A generator that ignores return() and a consumer that never breaks.
yieldNeverEndsGenerator(queued, translating) == FALSE

\* A yield ends the generator when a return() request is queued; the
\* consuming loop breaks on the snapshot when isTranslating is false and
\* thereby calls return() as well (index.tsx 107-110, 158-160).
yieldEndsGenerator(queued, translating) == queued \/ ~translating

\* The batch's results in reverse order.
batchResultReversed(first, j, size) == first + size - 1 - j

\* The node whose result is batchResults[j] in the batch that starts at
\* first: Promise.allSettled keeps the order of the promises (part_008
\* 170-174).
batchResult(first, j, size) == first + j

\* One pass of the result loop after Promise.allSettled: count, yield, and
\* the consumer's handling of the snapshot (part_008 170-196).
YieldProgress ==
  /\ gen = "batch"
  /\ \A k \in Batch : node[k] = "done"
  /\ LET k == batchResult(i, emitted, Cardinality(Batch))
     IN progress' = Append(progress,
                       Progress(completedCount + 1, N, st[k].res, totalUsage))
  /\ completedCount' = completedCount + 1
  /\ IF yieldEndsGenerator(returnQueued, isTranslating)
     THEN /\ gen' = "cancelled"
          /\ returnQueued' = FALSE
          /\ isTranslating' = FALSE
          /\ history' = [history EXCEPT !.phase = "cancelled"]
          /\ UNCHANGED <<i, emitted>>
     ELSE /\ IF emitted + 1 = Cardinality(Batch)
             THEN /\ i' = i + batchSize
                  /\ emitted' = 0
                  /\ gen' = "loop"
             ELSE /\ emitted' = emitted + 1
                  /\ UNCHANGED <<i, gen>>
          /\ UNCHANGED <<returnQueued, isTranslating, history>>
  /\ UNCHANGED <<dom, currentTerms, totalUsage, batchSize, onTermsUpdated,
                 rootElement, textNodes, node, st, category, asked, issued,
                 sessions, restores>>
  /\ UNCHANGED <<pureVars, messageVars>>

(***************************************************************************)
(* translate(): one node of a batch                                        *)
(***************************************************************************)

\* The tail of a node's promise: usage, updateTextNode, return
\* (part_008 132-154).
\* Node k's promise settles while an earlier node of its batch is still
\* running.
settlesOutOfOrder(k) == \E k2 \in Batch : k2 < k /\ node[k2] # "done"

FinishNodeWith(k, d) ==
  /\ totalUsage' = IF st[k].hasUsage THEN addUsage(totalUsage, CallUsage)
                   ELSE totalUsage
  /\ dom' = updateTextNode(d, textNodes[k], st[k].translatedText, FALSE)
  /\ node' = [node EXCEPT ![k] = "done"]
  /\ st' = [st EXCEPT ![k] =
              [NodeState(st[k].currentText) EXCEPT
                 !.res = NodeResult(TRUE, st[k].currentText, TRUE,
                                    st[k].translatedText, "")]]

\* translateText resolves.  With new terms the node goes through
\* addNewTerms, whose synchronous part runs here (part_008 118-130, 285-311).
ResolveText(k, answer) ==
  /\ gen = "batch"
  /\ k \in Batch
  /\ node[k] = "awaitText"
  /\ IF answer.terms # <<>>
     THEN LET hasNew == hasNewTerms(currentTerms, answer.terms)
              cats == addNewTerms(currentTerms, answer.terms)
          IN /\ currentTerms' = cats
             /\ dom' = IF hasNew
                       THEN applyTermsReplacementToAllNodes(dom, Body, cats)
                       ELSE dom
             /\ node' = [node EXCEPT ![k] =
                           IF hasNew /\ onTermsUpdated THEN "awaitSave"
                           ELSE "afterAdd"]
             /\ st' = [st EXCEPT ![k].terms = answer.terms,
                                 ![k].translatedText = answer.translatedText,
                                 ![k].hasUsage = answer.hasUsage]
             /\ UNCHANGED totalUsage
     ELSE /\ totalUsage' = IF answer.hasUsage
                           THEN addUsage(totalUsage, CallUsage) ELSE totalUsage
          /\ dom' = updateTextNode(dom, textNodes[k], answer.translatedText, FALSE)
          /\ node' = [node EXCEPT ![k] = "done"]
          /\ st' = [st EXCEPT ![k].res =
                      NodeResult(TRUE, st[k].currentText, TRUE,
                                 answer.translatedText, "")]
          /\ UNCHANGED currentTerms
  /\ history' = [history EXCEPT
                   !.reported =
                     IF answer.hasUsage THEN addUsage(@, CallUsage) ELSE @,
                   !.outOfOrder =
                     @ \/ (answer.terms = <<>> /\ settlesOutOfOrder(k)),
                   !.saved =
                     IF onTermsUpdated
                          /\ hasNewTerms(currentTerms, answer.terms)
                     THEN addNewTerms(currentTerms, answer.terms) ELSE @]
  /\ UNCHANGED <<batchSize, onTermsUpdated, gen, rootElement, textNodes, i,
                 emitted, completedCount, category, asked, isTranslating,
                 returnQueued, progress, issued, sessions, restores>>
  /\ UNCHANGED <<pureVars, messageVars>>

\* translateText rejects: the catch clause (part_008 155-166).
RejectText(k, error) ==
  /\ gen = "batch"
  /\ k \in Batch
  /\ node[k] = "awaitText"
  /\ error \in Rejections
  /\ node' = [node EXCEPT ![k] = "done"]
  /\ st' = [st EXCEPT ![k].res = NodeResult(FALSE, st[k].currentText, FALSE,
                                            <<>>, errorMessage(error))]
  /\ history' = [history EXCEPT !.outOfOrder = @ \/ settlesOutOfOrder(k)]
  /\ UNCHANGED <<dom, currentTerms, totalUsage, batchSize, onTermsUpdated, gen,
                 rootElement, textNodes, i, emitted, completedCount, category,
                 asked, isTranslating, returnQueued, progress, issued,
                 sessions, restores>>
  /\ UNCHANGED <<pureVars, messageVars>>

\* onTermsUpdated settles; a rejection is caught and logged, so both
\* outcomes continue alike (part_008 313-319).
SettleSave(k, rejected) ==
  /\ gen = "batch"
  /\ k \in Batch
  /\ node[k] = "awaitSave"
  /\ node' = [node EXCEPT ![k] = "afterAdd"]
  /\ history' = [history EXCEPT !.saveRejected =
                   IF rejected
                   THEN @ \cup {<<k, {st[k].terms[j].original :
                                        j \in 1..Len(st[k].terms)}>>}
                   ELSE @]
  /\ UNCHANGED <<dom, currentTerms, totalUsage, batchSize, onTermsUpdated, gen,
                 rootElement, textNodes, i, emitted, st, completedCount,
                 category, asked, isTranslating, returnQueued, progress,
                 issued, sessions, restores>>
  /\ UNCHANGED <<pureVars, messageVars>>

\* translateNewTerms up to its call of translateTerms (part_008 511-536).
StartTranslateNewTerms(k) ==
  /\ gen = "batch"
  /\ k \in Batch
  /\ node[k] = "afterAdd"
  /\ LET g == findGeneral(currentTerms)
         call == /\ g # 0
                 /\ termsToTranslate(currentTerms[g].terms, st[k].terms) # {}
     IN /\ node' = [node EXCEPT ![k] = IF call THEN "awaitTerms" ELSE "afterTerms"]
        /\ st' = [st EXCEPT ![k].asked =
                    IF call THEN untranslatedOriginals(currentTerms[g].terms)
                    ELSE {}]
  /\ UNCHANGED <<dom, currentTerms, totalUsage, batchSize, onTermsUpdated, gen,
                 rootElement, textNodes, i, emitted, completedCount, category,
                 asked, isTranslating, returnQueued, progress, issued,
                 sessions, restores, history>>
  /\ UNCHANGED <<pureVars, messageVars>>

\* The language model answers translateTerms for some of the terms it was
\* asked; the translator maps the category's terms as they are now
\* (translator.ts 195-217; pageTranslator.spec.ts 79-88 maps them when it is
\* called).  The caller resumes in a later step.
AnswerTerms(k, answered) ==
  /\ gen = "batch"
  /\ k \in Batch
  /\ node[k] = "awaitTerms"
  /\ answered \in SUBSET st[k].asked
  /\ node' = [node EXCEPT ![k] = "termsReturned"]
  /\ st' = [st EXCEPT ![k].updated =
              updatedTerms(currentTerms[findGeneral(currentTerms)].terms, answered)]
  /\ history' = [history EXCEPT !.reported = addUsage(@, CallUsage)]
  /\ UNCHANGED <<dom, currentTerms, totalUsage, batchSize, onTermsUpdated, gen,
                 rootElement, textNodes, i, emitted, completedCount, category,
                 asked, isTranslating, returnQueued, progress, issued,
                 sessions, restores>>
  /\ UNCHANGED <<pureVars, messageVars>>

\* translateTerms rejects: caught and logged (part_008 550-552).
RejectTerms(k) ==
  /\ gen = "batch"
  /\ k \in Batch
  /\ node[k] = "awaitTerms"
  /\ node' = [node EXCEPT ![k] = "afterTerms"]
  /\ UNCHANGED <<dom, currentTerms, totalUsage, batchSize, onTermsUpdated, gen,
                 rootElement, textNodes, i, emitted, st, completedCount,
                 category, asked, isTranslating, returnQueued, progress,
                 issued, sessions, restores, history>>
  /\ UNCHANGED <<pureVars, messageVars>>

\* translateNewTerms after its await: Object.assign, usage, and the
\* re-application over document.body (part_008 538-549).
AssignTerms(k) ==
  /\ gen = "batch"
  /\ k \in Batch
  /\ node[k] = "termsReturned"
  /\ LET cats == [currentTerms EXCEPT
                    ![findGeneral(currentTerms)].terms = st[k].updated]
     IN /\ currentTerms' = cats
        /\ dom' = applyTermsReplacementToAllNodes(dom, Body, cats)
  /\ totalUsage' = addUsage(totalUsage, CallUsage)
  /\ node' = [node EXCEPT ![k] = "afterTerms"]
  /\ UNCHANGED <<batchSize, onTermsUpdated, gen, rootElement, textNodes, i,
                 emitted, st, completedCount, category, asked, isTranslating,
                 returnQueued, progress, issued, sessions, restores, history>>
  /\ UNCHANGED <<pureVars, messageVars>>

\* The node's promise resumes after translateNewTerms and completes.
FinishNode(k) ==
  /\ gen = "batch"
  /\ k \in Batch
  /\ node[k] = "afterTerms"
  /\ FinishNodeWith(k, dom)
  /\ history' = [history EXCEPT !.outOfOrder = @ \/ settlesOutOfOrder(k)]
  /\ UNCHANGED <<currentTerms, batchSize, onTermsUpdated, gen, rootElement,
                 textNodes, i, emitted, completedCount, category, asked,
                 isTranslating, returnQueued, progress, issued, sessions,
                 restores>>
  /\ UNCHANGED <<pureVars, messageVars>>

(***************************************************************************)
(* translate(): final reconciliation and return                            *)
(***************************************************************************)

\* All batches are done and translateAllTerms is not waiting for a call.
BetweenCategories == (gen = "loop" /\ i > N) \/ gen = "allTerms"

\* The categories still to visit, General left out.
PendingSeedCategories ==
  {c \in 1..Len(currentTerms) :
     /\ c >= (IF gen = "loop" THEN 1 ELSE category)
     /\ currentTerms[c].name # "General"
     /\ untranslatedOriginals(currentTerms[c].terms) # {}}

\* The categories translateAllTerms has still to visit that hold an entry
\* without translation.
PendingCategories ==
  {c \in 1..Len(currentTerms) :
     /\ c >= (IF gen = "loop" THEN 1 ELSE category)
     /\ untranslatedOriginals(currentTerms[c].terms) # {}}

\* translateAllTerms reaches the next category with untranslated terms and
\* calls translateTerms for it (part_008 326-344).
CallTranslateAllTerms ==
  /\ BetweenCategories
  /\ PendingCategories # {}
  /\ LET c == CHOOSE c \in PendingCategories : \A c2 \in PendingCategories : c <= c2
     IN /\ category' = c
        /\ asked' = untranslatedOriginals(currentTerms[c].terms)
        /\ history' = [history EXCEPT
                         !.passTerms = IF gen = "loop" THEN currentTerms ELSE @,
                         !.sent = @ \cup {c}]
  /\ gen' = "awaitAllTerms"
  /\ UNCHANGED <<dom, currentTerms, totalUsage, batchSize, onTermsUpdated,
                 rootElement, textNodes, i, emitted, node, st, completedCount,
                 isTranslating, returnQueued, progress, issued, sessions,
                 restores>>
  /\ UNCHANGED <<pureVars, messageVars>>

\* translateTerms resolves in translateAllTerms: Object.assign and usage
\* (part_008 346-353).
AnswerAllTerms(answered) ==
  /\ gen = "awaitAllTerms"
  /\ answered \in SUBSET asked
  /\ currentTerms' = [currentTerms EXCEPT ![category].terms =
                        updatedTerms(currentTerms[category].terms, answered)]
  /\ totalUsage' = addUsage(totalUsage, CallUsage)
  /\ category' = category + 1
  /\ asked' = {}
  /\ gen' = "allTerms"
  /\ history' = [history EXCEPT !.reported = addUsage(@, CallUsage)]
  /\ UNCHANGED <<dom, batchSize, onTermsUpdated, rootElement, textNodes, i,
                 emitted, node, st, completedCount, isTranslating,
                 returnQueued, progress, issued, sessions, restores>>
  /\ UNCHANGED <<pureVars, messageVars>>

\* A rejection that leaves the loop over the categories.
RejectAllTermsEndsPass ==
  /\ gen = "awaitAllTerms"
  /\ category' = Len(currentTerms) + 1
  /\ asked' = {}
  /\ gen' = "allTerms"
  /\ history' = [history EXCEPT !.failed = @ \cup {category}]
  /\ UNCHANGED <<dom, currentTerms, totalUsage, batchSize, onTermsUpdated,
                 rootElement, textNodes, i, emitted, node, st, completedCount,
                 isTranslating, returnQueued, progress, issued, sessions,
                 restores>>
  /\ UNCHANGED <<pureVars, messageVars>>

\* translateTerms rejects in translateAllTerms: logged, next category
\* (part_008 354-361).
RejectAllTerms ==
  /\ gen = "awaitAllTerms"
  /\ category' = category + 1
  /\ asked' = {}
  /\ gen' = "allTerms"
  /\ history' = [history EXCEPT !.failed = @ \cup {category}]
  /\ UNCHANGED <<dom, currentTerms, totalUsage, batchSize, onTermsUpdated,
                 rootElement, textNodes, i, emitted, node, st, completedCount,
                 isTranslating, returnQueued, progress, issued, sessions,
                 restores>>
  /\ UNCHANGED <<pureVars, messageVars>>

\* translateAllTerms is through: the final re-application under the root
\* and the return of the result; the consumer's loop ends and its finally
\* clause clears isTranslating (part_008 199-207; index.tsx 119-150).
ReturnResult ==
  /\ BetweenCategories
  /\ PendingCategories = {}
  /\ dom' = applyTermsReplacementToAllNodes(dom, rootElement, currentTerms)
  /\ gen' = "returned"
  /\ isTranslating' = FALSE
  /\ returnQueued' = FALSE
  /\ history' = [history EXCEPT
                   !.phase =
                     IF returnQueued \/ history.restoredIn THEN "disturbed"
                     ELSE "completed",
                   !.passTerms = IF gen = "loop" THEN currentTerms ELSE @]
  /\ UNCHANGED <<currentTerms, totalUsage, batchSize, onTermsUpdated,
                 rootElement, textNodes, i, emitted, node, st, completedCount,
                 category, asked, progress, issued, sessions, restores>>
  /\ UNCHANGED <<pureVars, messageVars>>

(***************************************************************************)
(* Messages to the content script                                          *)
(***************************************************************************)

\* TranslationContentScript.handleStopTranslation (index.tsx 153-167).  The
\* generator is inside a next() call, so the return() request is queued.
StopTranslation ==
  /\ isTranslating
  /\ Quiescent
  /\ isTranslating' = FALSE
  /\ returnQueued' = TRUE
  /\ history' = [history EXCEPT !.stopAt = i]
  /\ UNCHANGED <<dom, currentTerms, totalUsage, batchSize, onTermsUpdated, gen,
                 rootElement, textNodes, i, emitted, node, st, completedCount,
                 category, asked, progress, issued, sessions, restores>>
  /\ UNCHANGED <<pureVars, messageVars>>

\* restoreOriginalText(r), called between sessions or while a session
\* waits (index.tsx 169-176; pageTranslator.spec.ts 263).
RestoreOriginal(r) ==
  /\ sessions >= 1
  /\ restores < MaxRestores
  /\ gen \in Ended \/ Quiescent
  /\ dom' = restoreOriginalText(dom, r)
  /\ restores' = restores + 1
  /\ history' =
       IF gen \in Ended
       THEN [history EXCEPT !.phase =
               IF history.phase = "completed" /\ r = rootElement
               THEN "restored" ELSE "other"]
       ELSE [history EXCEPT !.restoredIn = TRUE]
  /\ UNCHANGED <<currentTerms, totalUsage, batchSize, onTermsUpdated, gen,
                 rootElement, textNodes, i, emitted, node, st, completedCount,
                 category, asked, isTranslating, returnQueued, progress,
                 issued, sessions>>
  /\ UNCHANGED <<pureVars, messageVars>>

Next ==
  \/ \E r \in Roots : StartSession(r)
  \/ StartBatch
  \/ YieldProgress
  \/ \E k \in 1..N : \E answer \in TextAnswers(st[k].currentText) :
       ResolveText(k, answer)
  \/ \E k \in 1..N : \E error \in Rejections : RejectText(k, error)
  \/ \E k \in 1..N : \E rejected \in BOOLEAN : SettleSave(k, rejected)
  \/ \E k \in 1..N : StartTranslateNewTerms(k)
  \/ \E k \in 1..N : \E answered \in SUBSET st[k].asked : AnswerTerms(k, answered)
  \/ \E k \in 1..N : RejectTerms(k)
  \/ \E k \in 1..N : AssignTerms(k)
  \/ \E k \in 1..N : FinishNode(k)
  \/ CallTranslateAllTerms
  \/ \E answered \in SUBSET asked : AnswerAllTerms(answered)
  \/ RejectAllTerms
  \/ ReturnResult
  \/ StopTranslation
  \/ \E r \in Roots : RestoreOriginal(r)

\* One session of a fresh engine, with restoreOriginalText.
Spec == Init /\ [][Next]_vars

NextResume ==
  \/ \E r \in Roots : StartSession(r)
  \/ \E r \in Roots : TranslateAgain(r)
  \/ StartBatch
  \/ YieldProgress
  \/ \E k \in 1..N : \E answer \in TextAnswers(st[k].currentText) :
       ResolveText(k, answer)
  \/ \E k \in 1..N : \E error \in Rejections : RejectText(k, error)
  \/ \E k \in 1..N : \E rejected \in BOOLEAN : SettleSave(k, rejected)
  \/ \E k \in 1..N : StartTranslateNewTerms(k)
  \/ \E k \in 1..N : \E answered \in SUBSET st[k].asked : AnswerTerms(k, answered)
  \/ \E k \in 1..N : RejectTerms(k)
  \/ \E k \in 1..N : AssignTerms(k)
  \/ \E k \in 1..N : FinishNode(k)
  \/ CallTranslateAllTerms
  \/ \E answered \in SUBSET asked : AnswerAllTerms(answered)
  \/ RejectAllTerms
  \/ ReturnResult
  \/ StopTranslation

\* Sessions repeated on the same engine and document.
SpecResume == Init /\ [][NextResume]_vars

\* What translateText may resolve with when two nodes of a batch report
\* different terms: a plain translation, or a translation holding the
\* placeholder of term X or of term Y, reported as a new term without
\* translation.
GlossaryAnswers(currentText) ==
  { [translatedText |-> <<"t">> \o currentText, terms |-> <<>>, hasUsage |-> TRUE],
    [translatedText |-> <<"t">> \o PlaceholderX, terms |-> <<TermX(<<>>)>>,
     hasUsage |-> TRUE],
    [translatedText |-> <<"t">> \o TermY(<<>>).template, terms |-> <<TermY(<<>>)>>,
     hasUsage |-> TRUE] }

\* One page whose two nodes share every batch.
InitGlossary ==
  /\ Init
  /\ dom = PageNested
  /\ batchSize = MaxBatchSize

NextGlossary ==
  \/ StartSession(Body)
  \/ StartBatch
  \/ YieldProgress
  \/ \E k \in 1..N : \E answer \in GlossaryAnswers(st[k].currentText) :
       ResolveText(k, answer)
  \/ \E k \in 1..N : \E error \in Rejections : RejectText(k, error)
  \/ \E k \in 1..N : \E rejected \in BOOLEAN : SettleSave(k, rejected)
  \/ \E k \in 1..N : StartTranslateNewTerms(k)
  \/ \E k \in 1..N : \E answered \in SUBSET st[k].asked : AnswerTerms(k, answered)
  \/ \E k \in 1..N : RejectTerms(k)
  \/ \E k \in 1..N : AssignTerms(k)
  \/ \E k \in 1..N : FinishNode(k)
  \/ CallTranslateAllTerms
  \/ \E answered \in SUBSET asked : AnswerAllTerms(answered)
  \/ RejectAllTerms
  \/ ReturnResult
  \/ StopTranslation

\* One session in which the nodes of a batch report different terms.
SpecGlossary == InitGlossary /\ [][NextGlossary]_vars

(***************************************************************************)
(* A session that is never stopped, with the progress its awaits make      *)
(***************************************************************************)

\* One page, every engine and batch size.
InitLive ==
  /\ Init
  /\ dom = PageShared

\* A call of the Translator resolves or rejects.
TranslatorSettles ==
  \/ \E k \in 1..N : \E answer \in TextAnswers(st[k].currentText) :
       ResolveText(k, answer)
  \/ \E k \in 1..N : \E error \in Rejections : RejectText(k, error)
  \/ \E k \in 1..N : \E answered \in SUBSET st[k].asked : AnswerTerms(k, answered)
  \/ \E k \in 1..N : RejectTerms(k)
  \/ \E answered \in SUBSET asked : AnswerAllTerms(answered)
  \/ RejectAllTerms

\* The generator and the promises of its nodes run when they can: nothing
\* they wait for is outstanding.
EngineRuns ==
  \/ StartBatch
  \/ \E k \in 1..N : StartTranslateNewTerms(k)
  \/ \E k \in 1..N : AssignTerms(k)
  \/ \E k \in 1..N : FinishNode(k)
  \/ CallTranslateAllTerms
  \/ ReturnResult

\* The promise of the persistence callback settles.
SaveSettles == \E k \in 1..N : \E rejected \in BOOLEAN : SettleSave(k, rejected)

NextLive ==
  \/ StartSession(Body)
  \/ TranslatorSettles
  \/ EngineRuns
  \/ YieldProgress
  \/ SaveSettles

\* One session that nobody stops or restores.
SpecLive == InitLive /\ [][NextLive]_vars

(***************************************************************************)
(* A session on a part of a document another session has translated        *)
(***************************************************************************)

\* <body><p>ab</p><i>cd</i></body>
PageApart ==
  << ElemNode("BODY", <<2, 4>>, 0), ElemNode("P", <<3>>, 1),
     TextNode(<<"a", "b">>, 2), ElemNode("I", <<5>>, 1),
     TextNode(<<"c", "d">>, 4) >>

\* A fresh engine without the save callback, one node per batch.
InitApart ==
  /\ dom = PageApart
  /\ currentTerms = <<>>
  /\ onTermsUpdated = FALSE
  /\ totalUsage = ZeroUsage
  /\ batchSize = 1
  /\ gen = "none"
  /\ rootElement = 0
  /\ textNodes = <<>>
  /\ i = 1
  /\ emitted = 0
  /\ node = <<>>
  /\ st = <<>>
  /\ completedCount = 0
  /\ category = 1
  /\ asked = {}
  /\ isTranslating = FALSE
  /\ returnQueued = FALSE
  /\ progress = <<>>
  /\ issued = {}
  /\ sessions = 0
  /\ restores = 0
  /\ history = NoHistory
  /\ NoCalls
  /\ NoMessages

\* translate(document.body), and when it has ended translate(p) for the
\* paragraph.
NextApart ==
  \/ StartSession(Body)
  \/ TranslateAgain(2)
  \/ TranslatorSettles
  \/ EngineRuns
  \/ YieldProgress

SpecApart == InitApart /\ [][NextApart]_vars

(***************************************************************************)
(* collectTextNodes as a function of the document                          *)
(***************************************************************************)

CollectTags == {"DIV", "P", "CODE", "BUTTON"}

\* <body><t1>v1<t2>v2</t2></t1></body>, t2 carrying the data-translation
\* value mark; host is 0, or the element (2 or 4) that has the shadow tree
\* #shadow-root<span>C</span>.  Node ids follow document order.
CollectDoc(t1, t2, v1, v2, mark, host) ==
  LET light ==
        << ElemNode("BODY", <<2>>, 0),
           HostNode(t1, <<3, 4>>, 1, IF host = 2 THEN 6 ELSE 0),
           TextNode(v1, 2),
           [HostNode(t2, <<5>>, 2, IF host = 4 THEN 6 ELSE 0) EXCEPT !.dt = mark],
           TextNode(v2, 4) >>
  IN IF host = 0 THEN light
     ELSE light \o << ShadowRootNode(<<7>>), ElemNode("SPAN", <<8>>, 6),
                      TextNode(<<"C">>, 7) >>

CollectDocs ==
  {CollectDoc(t1, t2, v1, v2, mark, host) :
     t1 \in CollectTags, t2 \in CollectTags,
     v1 \in {<<"A">>, <<" ">>}, v2 \in {<<"B">>, <<"1">>},
     mark \in {"none", "true", "false"}, host \in {0, 2, 4}}

\* The elements collectTextNodes is called with.
CollectRoots == {1, 2, 4}

InitCollect ==
  /\ dom \in CollectDocs
  /\ currentTerms = <<>>
  /\ onTermsUpdated = FALSE
  /\ totalUsage = ZeroUsage
  /\ batchSize = 1
  /\ gen = "none"
  /\ rootElement = 0
  /\ textNodes = <<>>
  /\ i = 1
  /\ emitted = 0
  /\ node = <<>>
  /\ st = <<>>
  /\ completedCount = 0
  /\ category = 1
  /\ asked = {}
  /\ isTranslating = FALSE
  /\ returnQueued = FALSE
  /\ progress = <<>>
  /\ issued = {}
  /\ sessions = 0
  /\ restores = 0
  /\ history = NoHistory
  /\ NoCalls
  /\ NoMessages

\* translator.collectTextNodes(r), called on its own
\* (pageTranslator.spec.ts 102-125).
CollectTextNodes(r) ==
  /\ gen = "none"
  /\ rootElement = 0
  /\ r \in DOMAIN dom
  /\ rootElement' = r
  /\ textNodes' = collectTextNodes(dom, r)
  /\ UNCHANGED <<dom, currentTerms, totalUsage, batchSize, onTermsUpdated, gen,
                 i, emitted, node, st, completedCount, category, asked,
                 isTranslating, returnQueued, progress, issued, sessions,
                 restores, history>>
  /\ UNCHANGED <<pureVars, messageVars>>

NextCollect == \E r \in CollectRoots : CollectTextNodes(r)

SpecCollect == InitCollect /\ [][NextCollect]_vars

(***************************************************************************)
(* RegexRenderer.render and extractDomain as functions of their arguments  *)
(***************************************************************************)

\* No engine: the variables of PageTranslator and of the content script
\* keep their initial values, without a document.
NoEngine ==
  /\ dom = <<>>
  /\ currentTerms = <<>>
  /\ onTermsUpdated = FALSE
  /\ totalUsage = ZeroUsage
  /\ batchSize = 1
  /\ gen = "none"
  /\ rootElement = 0
  /\ textNodes = <<>>
  /\ i = 1
  /\ emitted = 0
  /\ node = <<>>
  /\ st = <<>>
  /\ completedCount = 0
  /\ category = 1
  /\ asked = {}
  /\ isTranslating = FALSE
  /\ returnQueued = FALSE
  /\ progress = <<>>
  /\ issued = {}
  /\ sessions = 0
  /\ restores = 0
  /\ history = NoHistory

\* A template is written from at most MaxPieces pieces.
MaxPieces == 3

\* "{{" pad id pad "}}"
Placeholder(id, pad) == OpenBraces \o pad \o id \o pad \o CloseBraces

\* The pieces of a template: literal text (id <<>>) and placeholders.
RenderPieces ==
  { [text |-> <<"a">>, id |-> <<>>],
    [text |-> <<" ">>, id |-> <<>>],
    [text |-> Placeholder(<<"X">>, <<>>), id |-> <<"X">>],
    [text |-> Placeholder(<<"X">>, <<" ">>), id |-> <<"X">>],
    [text |-> Placeholder(<<"Y">>, <<>>), id |-> <<"Y">>],
    [text |-> Placeholder(<<"t", "o", "S", "t", "r", "i", "n", "g">>, <<>>),
     id |-> <<"t", "o", "S", "t", "r", "i", "n", "g">>] }

\* Contexts: object literals with the keys X and Y, or without them.
RenderContexts ==
  { <<>>,
    <<[k |-> <<"X">>, v |-> <<"z">>]>>,
    <<[k |-> <<"Y">>, v |-> PlaceholderX]>>,
    <<[k |-> <<"X">>, v |-> <<"z">>], [k |-> <<"Y">>, v |-> PlaceholderX]>> }

RECURSIVE concatText(_)
concatText(pieces) ==
  IF pieces = <<>> THEN <<>> ELSE Head(pieces).text \o concatText(Tail(pieces))

InitRender ==
  /\ NoEngine
  /\ given \in UNION {[1..n -> RenderPieces] : n \in 0..MaxPieces}
  /\ template = concatText(given)
  /\ context \in RenderContexts
  /\ strictMode \in BOOLEAN
  /\ rendered = <<>>
  /\ url = <<>>
  /\ domain = <<>>
  /\ NoMessages

\* new RegexRenderer({strictMode}).render(template, context)
Render ==
  /\ rendered = <<>>
  /\ rendered' = renderStrictMode(strictMode, template, context)
  /\ UNCHANGED <<engineVars, messageVars, template, context, strictMode, url, domain, given>>

NextRender == Render

SpecRender == InitRender /\ [][NextRender]_vars

\* A host is written from at most MaxLabels labels.
MaxLabels == 4

DomainLabels == {"www", "example", "com", "COM", "localhost", "1"}

\* The labels of a host, joined by dots, with or without a trailing dot.
RECURSIVE hostText(_)
hostText(labels) ==
  IF labels = <<>> THEN <<>>
  ELSE IF Len(labels) = 1 THEN labels
  ELSE <<Head(labels), ".">> \o hostText(Tail(labels))

\* The arguments of extractDomain: an optional scheme, a host or the IPv6
\* literal, an optional port and an optional path.
DomainInputs ==
  [ scheme : {<<>>, <<"https", "://">>, <<"http", "://">>, <<"://">>},
    labels : UNION {[1..n -> DomainLabels] : n \in 0..MaxLabels},
    dot : BOOLEAN,
    ipv6 : BOOLEAN,
    port : {<<>>, <<":", "8080">>},
    path : {<<>>, <<"/", "p">>} ]

urlText(in) ==
  in.scheme
    \o (IF in.ipv6 THEN <<"[::1]">>
        ELSE hostText(in.labels) \o (IF in.dot THEN <<".">> ELSE <<>>))
    \o in.port \o in.path

InitDomain ==
  /\ NoEngine
  /\ given \in {in \in DomainInputs :
                   /\ in.ipv6 => in.labels = <<>> /\ ~in.dot
                   /\ in.dot => in.labels # <<>>}
  /\ url = urlText(given)
  /\ domain = <<>>
  /\ template = <<>>
  /\ context = <<>>
  /\ strictMode = FALSE
  /\ rendered = <<>>
  /\ NoMessages

\* extractDomain(url)
ExtractDomain ==
  /\ domain = <<>>
  /\ domain' = extractDomain(url)
  /\ UNCHANGED <<engineVars, messageVars, template, context, strictMode, rendered, url, given>>

NextDomain == ExtractDomain

SpecDomain == InitDomain /\ [][NextDomain]_vars

\* Node.contains restricted to proper descendants: n lies under r.  The
\* parent chain ends at a shadow root, so a node of a shadow tree does not
\* lie under the host.
RECURSIVE contains(_, _, _)
contains(d, r, n) ==
  /\ d[n].parent # 0
  /\ d[n].parent = r \/ contains(d, r, d[n].parent)

\* Node.getRootNode(): the top of the tree n is in.
RECURSIVE getRootNode(_, _)
getRootNode(d, n) == IF d[n].parent = 0 THEN n ELSE getRootNode(d, d[n].parent)

(***************************************************************************)
(* applyTermsReplacement as a function of the text and the glossary        *)
(***************************************************************************)

TermToString(translated) ==
  [original |-> <<"t", "o", "S", "t", "r", "i", "n", "g">>,
   translated |-> translated,
   template |-> Placeholder(<<"t", "o", "S", "t", "r", "i", "n", "g">>, <<>>)]

\* The entries a glossary may hold for each of three originals: none, an
\* entry without translation, one whose translation is its original, one
\* with a translation of its own.
SubstituteEntries ==
  << {<<>>, <<TermX(<<>>)>>, <<TermX(<<"x">>)>>},
     {<<>>, <<TermY(<<>>)>>, <<TermY(<<"Y">>)>>, <<TermY(<<"y">>)>>},
     {<<>>, <<TermToString(<<>>)>>} >>

\* Glossaries: a seed category and General, the originals spread over them.
SubstituteGlossaries ==
  { << [name |-> "Curated", terms |-> y],
       [name |-> "General", terms |-> x \o t] >> :
      x \in SubstituteEntries[1], y \in SubstituteEntries[2],
      t \in SubstituteEntries[3] }

\* The pieces of a text: a letter and the placeholders of the entries.
SubstitutePieces ==
  { [text |-> <<"a">>, id |-> <<>>],
    [text |-> TermX(<<>>).template, id |-> <<"X">>],
    [text |-> TermY(<<>>).template, id |-> <<"Y">>],
    [text |-> TermToString(<<>>).template,
     id |-> <<"t", "o", "S", "t", "r", "i", "n", "g">>] }

InitSubstitute ==
  /\ dom = <<>>
  /\ currentTerms \in SubstituteGlossaries
  /\ onTermsUpdated = FALSE
  /\ totalUsage = ZeroUsage
  /\ batchSize = 1
  /\ gen = "none"
  /\ rootElement = 0
  /\ textNodes = <<>>
  /\ i = 1
  /\ emitted = 0
  /\ node = <<>>
  /\ st = <<>>
  /\ completedCount = 0
  /\ category = 1
  /\ asked = {}
  /\ isTranslating = FALSE
  /\ returnQueued = FALSE
  /\ progress = <<>>
  /\ issued = {}
  /\ sessions = 0
  /\ restores = 0
  /\ history = NoHistory
  /\ given \in UNION {[1..n -> SubstitutePieces] : n \in 1..MaxPieces}
  /\ template = concatText(given)
  /\ context = <<>>
  /\ strictMode = FALSE
  /\ rendered = <<>>
  /\ url = <<>>
  /\ domain = <<>>
  /\ NoMessages

\* this.applyTermsReplacement(text): the context built from currentTerms
\* and the text the renderer returns for it (part_008 448-471).
ApplyTermsReplacement ==
  /\ rendered = <<>>
  /\ context' = categoriesContext(currentTerms)
  /\ rendered' = applyTermsReplacement(template, currentTerms)
  /\ UNCHANGED <<engineVars, messageVars, template, strictMode, url, domain, given>>

NextSubstitute == ApplyTermsReplacement

SpecSubstitute == InitSubstitute /\ [][NextSubstitute]_vars

(***************************************************************************)
(* TranslationContentScript: startTranslation and stopTranslation          *)
(***************************************************************************)

\* No promise reaction is due: what runs next is a message, or the
\* settling of a promise of chrome or of a session's Translator.
Idle == script.jobs = <<>>

InitContent ==
  /\ NoEngine
  /\ NoCalls
  /\ NoMessages

\* A startTranslation message: handleStartTranslation up to its first
\* await.
StartTranslationMessage ==
  /\ Idle
  /\ script.starts < MaxStarts
  /\ LET h == script.starts + 1
     IN  script' =
           [script EXCEPT
              !.starts = h,
              !.handler[h] = IF script.isTranslating THEN "refused"
                             ELSE "loading",
              !.overlapped = IF busy(script) THEN @ \cup {h} ELSE @]
  /\ UNCHANGED <<engineVars, pureVars, background>>

\* A stopTranslation message: handleStopTranslation.
StopTranslationMessage ==
  /\ Idle
  /\ script.stops < MaxStops
  /\ script' =
       IF ~script.isTranslating THEN [script EXCEPT !.stops = @ + 1]
       ELSE LET g == script.currentTranslationGenerator
                flagged == [script EXCEPT !.stops = @ + 1,
                                          !.isTranslating = FALSE,
                                          !.stopped = @ \cup {script.translator}]
                returned ==
                  IF g = 0 THEN flagged
                  ELSE [request(flagged, g, returnRequest(0))
                          EXCEPT !.currentTranslationGenerator = 0]
            IN  sendMessage(returned, Message("translationStopped", 0, Undefined))
  /\ UNCHANGED <<engineVars, pureVars, background>>

\* The promise of chrome that call h awaits settles:
\* chrome.storage.local.get while it loads the stored terms,
\* chrome.runtime.sendMessage after it sent saveTerms.
ChromeSettles(h, rejected) ==
  /\ Idle
  /\ script.handler[h] \in {"loading", "awaitSave"}
  /\ \E total \in 1..MaxSnapshots :
       script' =
         IF rejected
         THEN finallyClause(
                sendMessage(script, Message("translationError", h, Undefined)),
                h)
         ELSE IF script.handler[h] = "loading"
              THEN startSession(script, h, total)
              ELSE finallyClause(
                     sendMessage(script,
                       Message("translationComplete", h, script.finalResult[h])),
                     h)
  /\ UNCHANGED <<engineVars, pureVars, background>>

\* The body of session g's translate() reaches its next yield.
BodyYields(g) ==
  /\ Idle
  /\ script.generator[g].state = "executing"
  /\ script.generator[g].yielded < script.generator[g].total
  /\ LET served == bodyYields(script.generator[g],
                     TranslationProgress(g, script.generator[g].yielded))
     IN  script' = [script EXCEPT !.generator[g] = served.generator,
                                  !.jobs = @ \o awaited(served.settled)]
  /\ UNCHANGED <<engineVars, pureVars, background>>

\* The body of session g's translate() reaches its return statement.
BodyReturns(g) ==
  /\ Idle
  /\ script.generator[g].state = "executing"
  /\ script.generator[g].yielded = script.generator[g].total
  /\ LET served == bodyReturns(script.generator[g], TranslationResult(g))
     IN  script' = [script EXCEPT !.generator[g] = served.generator,
                                  !.jobs = @ \o awaited(served.settled)]
  /\ UNCHANGED <<engineVars, pureVars, background>>

\* The first promise reaction that is due runs.
RunJob ==
  /\ script.jobs # <<>>
  /\ LET job == Head(script.jobs)
     IN  script' = continue([script EXCEPT !.jobs = Tail(@)], job.to, job.result)
  /\ UNCHANGED <<engineVars, pureVars, background>>

NextContent ==
  \/ StartTranslationMessage
  \/ StopTranslationMessage
  \/ \E h \in Handlers : \E rejected \in BOOLEAN : ChromeSettles(h, rejected)
  \/ \E g \in Handlers : BodyYields(g)
  \/ \E g \in Handlers : BodyReturns(g)
  \/ RunJob

SpecContent == InitContent /\ [][NextContent]_vars

(***************************************************************************)
(* The background page: saveTerms                                          *)
(***************************************************************************)

InitBackground ==
  /\ NoEngine
  /\ NoCalls
  /\ script = NoScript
  /\ \E stored \in {Absent} \cup {ArrayTerms(glossary) : glossary \in Glossaries} :
       background =
         [NoBackground EXCEPT !.translationTermsByDomain["a.com"] = stored]

\* A saveTerms message: handleSaveTerms(terms, domain, sendResponse) up to
\* its first await.
SaveTermsMessage(message) ==
  /\ background.saves < MaxSaves
  /\ LET r == background.saves + 1
     IN  background' =
           [background EXCEPT
              !.saves = r,
              !.request[r] = [NoRequest EXCEPT !.at = "get",
                                               !.domain = message.domain,
                                               !.terms = message.terms]]
  /\ UNCHANGED <<engineVars, pureVars, script>>

\* chrome.storage.local.get(["translationTermsByDomain"]) settles for
\* request r: the handler assigns the terms to its copy and calls
\* chrome.storage.local.set.
StorageGetSettles(r, rejected) ==
  /\ background.request[r].at = "get"
  /\ background' =
       IF rejected THEN [background EXCEPT !.request[r].at = "failed"]
       ELSE [background EXCEPT
               !.request[r].at = "set",
               !.request[r].termsByDomain =
                  assignTerms(background.translationTermsByDomain,
                              background.request[r].domain,
                              background.request[r].terms)]
  /\ UNCHANGED <<engineVars, pureVars, script>>

\* chrome.storage.local.set({translationTermsByDomain: termsByDomain})
\* settles for request r: the store holds the handler's copy.
StorageSetSettles(r, rejected) ==
  /\ background.request[r].at = "set"
  /\ background' =
       IF rejected THEN [background EXCEPT !.request[r].at = "failed"]
       ELSE [background EXCEPT
               !.request[r].at = "query",
               !.translationTermsByDomain = background.request[r].termsByDomain]
  /\ UNCHANGED <<engineVars, pureVars, script>>

\* chrome.tabs.query({}) settles for request r: termsUpdated goes to the
\* tabs and the response to the sender.
TabsQuerySettles(r, rejected) ==
  /\ background.request[r].at = "query"
  /\ background' =
       [background EXCEPT !.request[r].at = IF rejected THEN "failed" ELSE "done"]
  /\ UNCHANGED <<engineVars, pureVars, script>>

NextBackground ==
  \/ \E message \in SaveMessages : SaveTermsMessage(message)
  \/ \E r \in SaveRequests : \E rejected \in BOOLEAN : StorageGetSettles(r, rejected)
  \/ \E r \in SaveRequests : \E rejected \in BOOLEAN : StorageSetSettles(r, rejected)
  \/ \E r \in SaveRequests : \E rejected \in BOOLEAN : TabsQuerySettles(r, rejected)

SpecBackground == InitBackground /\ [][NextBackground]_vars

(***************************************************************************)
(* Properties                                                              *)
(***************************************************************************)

\* C1: after translate(root) has run to completion and restoreOriginalText(root)
\* was then called, the text content of root equals its value before the
\* session, whatever the order in which the translateText calls of a batch
\* completed, also when an element and an element nested in it both own
\* translated text nodes.
C1_RestoreGivesBackText ==
  history.phase = "restored" => textContent(dom, rootElement) = history.preText

\* C2: when a session has completed, every text node it wrote whose
\* translated text holds a placeholder displays the text with each
\* placeholder replaced by the glossary's final translation of its term
\* (for the terms with a non-empty translation different from the original),
\* also when the node was written before the term was known and when it
\* shares its owning element with other translated text nodes.
C2_PlaceholdersRendered ==
  history.phase = "completed" =>
    \A k \in 1..N :
      (k \in issued /\ st[k].res.success
         /\ includes(st[k].res.translatedText, OpenBraces))
      => dom[textNodes[k]].value =
           applyTermsReplacement(st[k].res.translatedText, currentTerms)

\* C3: once the stop message has been handled, translateText is called for
\* no further node: the batch in flight settles and no later batch starts.
C3_NoCallAfterCancel ==
  [][history.stopAt # 0 => issued' = issued]_vars

\* A session was stopped while a batch was in flight and ended with a later
\* batch, holding a text long enough to be sent, never started.
C3_Witness ==
  /\ gen = "cancelled"
  /\ history.stopAt # 0
  /\ \E k \in 1..N :
       /\ k >= history.stopAt + batchSize
       /\ node[k] = "idle"
       /\ k \notin issued
       /\ ~isShort(trim(history.preValues[k]))

\* C4: when the stop message is handled after the snapshots of batch k
\* (k >= 1) were delivered, the session ends with the nodes of the batches 1..k translated
\* and no other: every node of a later batch has the text it had when it
\* was collected, and its owning element is marked only if a node of the
\* batches 1..k shares it, even if the node's translateText call was already
\* started and settled after the stop.
C4_CancelKeepsLaterBatches ==
  (gen = "cancelled" /\ history.stopAt > 1 /\ ~history.restoredIn) =>
    \A k \in 1..N :
      k >= history.stopAt =>
        /\ dom[textNodes[k]].value = history.preValues[k]
        /\ dom[history.preOwners[k]].dt = "true" =>
             \E k2 \in 1..(history.stopAt - 1) :
               history.preOwners[k2] = history.preOwners[k]

\* C5: when translateText rejects for a node, the node's result and its
\* progress snapshot carry the error message (that of the Error, or the
\* fallback text for a value that is no Error) and no translated text, the
\* node keeps the text it was collected with, its owning element is marked
\* only if another node that was written shares it, and the session still
\* goes through every node before it returns its result.
C5_FailureIsNodeLocal ==
  /\ \A k \in 1..N :
       (node[k] = "done" /\ ~st[k].res.success) =>
         /\ st[k].res.error \in
              {e.message : e \in {e2 \in Rejections : e2.isError}}
                \cup {"Translation failed"}
         /\ ~st[k].res.hasTranslated
         /\ dom[textNodes[k]].value = history.preValues[k]
         /\ dom[history.preOwners[k]].dt = "true" =>
              \E k2 \in (1..N) \ {k} :
                /\ history.preOwners[k2] = history.preOwners[k]
                /\ st[k2].res.success
                /\ k2 \in issued
         /\ k <= completedCount =>
              /\ progress[k + 1].current = k
              /\ progress[k + 1].error = st[k].res.error
              /\ ~progress[k + 1].hasTranslated
  /\ gen = "returned" => completedCount = N

\* A session returned its result although the call for its first node was
\* rejected; a later node was translated and written.
C5_Witness ==
  /\ gen = "returned"
  /\ N >= 2
  /\ ~st[1].res.success
  /\ progress[2].error = "network down"
  /\ \E k \in 2..N :
       /\ st[k].res.success
       /\ k \in issued
       /\ dom[textNodes[k]].value = st[k].res.translatedText
       /\ dom[textNodes[k]].value # history.preValues[k]

\* C6: in every state of a session, whatever the interleaving of node
\* completions and translateTerms calls, no category of the glossary holds
\* two entries with the same original.
C6_NoDuplicateOriginals ==
  \A c \in 1..Len(currentTerms) :
    \A a, b \in 1..Len(currentTerms[c].terms) :
      a # b => currentTerms[c].terms[a].original # currentTerms[c].terms[b].original

\* Two nodes of a session reported the same term, the second while the
\* first one's translateTerms call was pending, and General holds it once.
C6_Witness ==
  /\ gen = "batch"
  /\ \E k1, k2 \in Batch :
       /\ k1 # k2
       /\ node[k1] = "awaitTerms"
       /\ node[k2] \in {"afterAdd", "awaitSave"}
       /\ st[k1].terms # <<>>
       /\ st[k2].terms # <<>>
       /\ st[k1].terms[1].original = st[k2].terms[1].original
  /\ findGeneral(currentTerms) # 0
  /\ Len(currentTerms[findGeneral(currentTerms)].terms) = 1

\* C7: every snapshot of a session carries total = N, the number of
\* collected nodes, and counts one node more than the snapshot before; a
\* session that has returned has emitted N + 1 snapshots, whatever the
\* batch size.
C7_SnapshotCount ==
  /\ \A j \in 1..Len(progress) :
       /\ progress[j].total = N
       /\ progress[j].current = j - 1
  /\ gen = "returned" => Len(progress) = N + 1

\* A session over three nodes with batches of two, the last batch partial,
\* has returned.
C7_Witness ==
  /\ gen = "returned"
  /\ N = 3
  /\ batchSize = 2
  /\ Len(progress) = 4
  /\ progress[4].total = 3

\* C8: for a collected node whose trimmed text is shorter than
\* MIN_TEXT_LENGTH, translateText is never called and the node keeps its
\* text; once its promise is done its result is a success whose translated
\* text is the trimmed text, and its snapshot advances the count by one.
C8_ShortTextPassesThrough ==
  \A k \in 1..N :
    Len(trim(history.preValues[k])) < MIN_TEXT_LENGTH =>
      /\ k \notin issued
      /\ dom[textNodes[k]].value = history.preValues[k]
      /\ node[k] = "done" =>
           /\ st[k].res.success
           /\ st[k].res.hasTranslated
           /\ st[k].res.translatedText = trim(history.preValues[k])
      /\ k <= completedCount =>
           /\ progress[k + 1].current = progress[k].current + 1
           /\ progress[k + 1].hasTranslated
           /\ progress[k + 1].translatedText = trim(history.preValues[k])
           /\ progress[k + 1].currentText = trim(history.preValues[k])
           /\ progress[k + 1].error = ""

\* The snapshot of a one-letter node was emitted after those of longer
\* nodes that were sent to translateText.
C8_Witness ==
  \E k \in 2..N :
    /\ Len(trim(history.preValues[k])) = 1
    /\ k <= completedCount
    /\ progress[k + 1].translatedText = history.preValues[k]
    /\ issued # {}
    /\ k \notin issued

\* C9: when translate(root) is called after a session that was cancelled,
\* no element under root is still marked data-translation="true" at the
\* moment the nodes are collected: the marks the earlier session left were
\* reverted first, so that the text of those elements is collected again.
C9_RevertsStaleMarks ==
  (gen = "loop" /\ i = 1 /\ history.prevPhase = "cancelled") =>
    translatedElements(dom, rootElement) = <<>>

\* C10: a session on a root on which the session before ran to completion
\* and had translateText succeed for every node it collected is a no-op: it
\* collects nothing, calls translateText for no node, emits the single
\* snapshot {current: 0, total: 0} and leaves the text of the root as it was.
C10_RetranslateIsNoOp ==
  (sessions >= 2 /\ history.prevPhase = "completed" /\ history.prevAllTranslated
     /\ history.prevRoot = rootElement) =>
    /\ N = 0
    /\ issued = {}
    /\ Len(progress) = 1
    /\ progress[1].current = 0
    /\ progress[1].total = 0
    /\ textContent(dom, rootElement) = history.preText

\* C11: the usage in the final result of a session, a second session on
\* the same engine included, is the component-wise sum of the usage
\* reported by the translateText and translateTerms calls that resolved
\* during that session.
C11_FinalUsageIsSessionSum ==
  gen = "returned" => totalUsage = history.reported

\* C12: the first snapshot of every session is {current: 0, total: N} with
\* an all-zero usage, N being the number of collected nodes, and no
\* Translator call has been issued when it is emitted.
C12_FirstSnapshot ==
  /\ Len(progress) >= 1 =>
       /\ progress[1].current = 0
       /\ progress[1].total = N
       /\ progress[1].usage = ZeroUsage
  /\ Len(progress) = 1 /\ gen = "loop" /\ i = 1 =>
       /\ issued = {}
       /\ history.reported = ZeroUsage

\* C13: collectTextNodes(root) returns no text node that lies under an
\* element with a tag of the skip set, at whatever depth.
C13_NothingUnderSkipTags ==
  rootElement # 0 =>
    \A j \in 1..Len(textNodes) :
      \A a \in DOMAIN dom :
        (dom[a].kind = "elem" /\ contains(dom, a, textNodes[j]))
          => dom[a].tag \notin SKIP_TAGS

\* C14 (as stated): collectTextNodes(root) returns, without repetition, the
\* eligible text nodes under root and those of every shadow tree whose host
\* is root or lies under root; the light-DOM nodes come first, in document
\* order, and the nodes of the shadow trees after them.
C14_DocumentOrderEveryShadowTree ==
  rootElement # 0 =>
    LET inLight(n) == contains(dom, rootElement, n)
        inShadow(n) ==
          \E h \in DOMAIN dom :
            /\ h = rootElement \/ contains(dom, rootElement, h)
            /\ dom[h].shadow # 0
            /\ getRootNode(dom, n) = dom[h].shadow
    IN /\ {textNodes[j] : j \in 1..Len(textNodes)} =
            {n \in DOMAIN dom :
               acceptTextNodeFilter(dom, n) /\ (inLight(n) \/ inShadow(n))}
       /\ \A a, b \in 1..Len(textNodes) :
            a < b =>
              /\ textNodes[a] # textNodes[b]
              /\ inLight(textNodes[b]) =>
                   inLight(textNodes[a]) /\ textNodes[a] < textNodes[b]

\* C14 (amended): collectTextNodes(root) returns, without repetition, the
\* eligible text nodes under root and those of every shadow tree whose host
\* lies under root (the shadow tree of root itself is not entered); the
\* light-DOM nodes come first, in document order, and the nodes of the
\* shadow trees after them; for <div>A<p>B</p></div> the result is A, B.
C14_DocumentOrderNestedShadowTrees ==
  rootElement # 0 =>
    LET inLight(n) == contains(dom, rootElement, n)
        inShadow(n) ==
          \E h \in DOMAIN dom :
            /\ contains(dom, rootElement, h)
            /\ dom[h].shadow # 0
            /\ getRootNode(dom, n) = dom[h].shadow
    IN /\ {textNodes[j] : j \in 1..Len(textNodes)} =
            {n \in DOMAIN dom :
               acceptTextNodeFilter(dom, n) /\ (inLight(n) \/ inShadow(n))}
       /\ \A a, b \in 1..Len(textNodes) :
            a < b =>
              /\ textNodes[a] # textNodes[b]
              /\ inLight(textNodes[b]) =>
                   inLight(textNodes[a]) /\ textNodes[a] < textNodes[b]
       /\ (dom = CollectDoc("DIV", "P", <<"A">>, <<"B">>, "none", 0)
             /\ rootElement = 2) => textNodes = <<3, 5>>

\* collectTextNodes(body) on <body><div>A<p>B</p></div></body> whose <div>
\* hosts a shadow tree returned A, B and then the text of the shadow tree,
\* which precedes B by node id.
C14_Witness ==
  /\ rootElement = 1
  /\ dom = CollectDoc("DIV", "P", <<"A">>, <<"B">>, "none", 2)
  /\ textNodes = <<3, 5, 8>>

\* C15: after translate(root) has run to completion and restoreOriginalText(root)
\* was then called, a root that carries a stored original itself has its
\* content back to that original and its flag set to "false".
C15_RestoresRootItself ==
  (history.phase = "restored" /\ dom[rootElement].orig # <<>>) =>
    /\ dom[rootElement].dt = "false"
    /\ serialize(dom, dom[rootElement].kids) = dom[rootElement].orig

\* C16: after translate(root) has run to completion and restoreOriginalText(root)
\* was then called, a second restoreOriginalText(root) changes nothing of
\* root: no content, no flag and no stored original.
C16_SecondRestoreChangesNothing ==
  history.phase = "restored" =>
    serialize(restoreOriginalText(dom, rootElement), <<rootElement>>)
      = serialize(dom, <<rootElement>>)

\* C17: render in non-strict mode returns the template with every
\* placeholder whose identifier (written with or without surrounding
\* whitespace, once or several times) is a key of the context replaced by
\* the value of that key, and with every other placeholder exactly as
\* written; it does not throw.
C17_NonStrictRender ==
  (rendered # <<>> /\ ~strictMode) =>
    LET isKey(id) == \E j \in 1..Len(context) : context[j].k = id
        value(id) == context[CHOOSE j \in 1..Len(context) : context[j].k = id].v
        out(piece) == IF piece.id # <<>> /\ isKey(piece.id)
                      THEN value(piece.id) ELSE piece.text
        RECURSIVE substituted(_)
        substituted(pieces) ==
          IF pieces = <<>> THEN <<>>
          ELSE out(Head(pieces)) \o substituted(Tail(pieces))
    IN /\ ~rendered.threw
       /\ rendered.text = substituted(given)

\* C18: render in strict mode, when some placeholder's identifier is not a
\* key of the context, throws one error whose message names every such
\* identifier and returns no text; when there is none it returns what the
\* non-strict renderer returns.
C18_StrictRender ==
  (rendered # <<>> /\ strictMode) =>
    LET isKey(id) == \E j \in 1..Len(context) : context[j].k = id
        value(id) == context[CHOOSE j \in 1..Len(context) : context[j].k = id].v
        out(piece) == IF piece.id # <<>> /\ isKey(piece.id)
                      THEN value(piece.id) ELSE piece.text
        RECURSIVE substituted(_)
        substituted(pieces) ==
          IF pieces = <<>> THEN <<>>
          ELSE out(Head(pieces)) \o substituted(Tail(pieces))
        missing == {given[k].id : k \in {j \in 1..Len(given) :
                      given[j].id # <<>> /\ ~isKey(given[j].id)}}
    IN IF missing # {}
       THEN /\ rendered.threw
            /\ rendered.text = <<>>
            /\ \A id \in missing : includes(rendered.message, id)
       ELSE /\ ~rendered.threw
            /\ rendered.text = substituted(given)

\* C19: extractDomain maps a URL or bare host whose host has at least two
\* labels and is not an IP address to the last two labels of the host
\* (letter case apart), maps localhost and an IPv4 host to themselves and
\* input without a host or with a malformed scheme to "unknown"; applied to
\* its own result it returns that result.
C19_LastTwoLabels ==
  domain # <<>> =>
    LET labels == given.labels
        n == Len(labels)
        wellFormed == given.scheme # <<"://">> /\ ~given.ipv6
        lower(label) == IF label = "COM" THEN "com" ELSE label
        isIPv4 == n = 4 /\ \A k \in 1..n : labels[k] \in Numbers
    IN /\ (wellFormed /\ n >= 2 /\ labels[n] \notin Numbers) =>
            [k \in 1..Len(domain) |-> lower(domain[k])]
              = <<lower(labels[n - 1]), ".", lower(labels[n])>>
       /\ (wellFormed /\ ((labels = <<"localhost">> /\ ~given.dot) \/ isIPv4)) =>
            domain = hostText(labels)
       /\ (given.scheme = <<"://">> \/ (~given.ipv6 /\ n = 0)) =>
            domain = <<"unknown">>
       /\ extractDomain(domain) = domain

\* C20: at every moment at most batchSize translateText calls are
\* outstanding; while a call is outstanding or afterwards, no call of an
\* earlier batch is outstanding and no node of a later batch has been
\* sent; and an outstanding call can complete whatever the state of the
\* other nodes of its batch.
C20_BoundedConcurrency ==
  LET outstanding == {k \in 1..Len(node) : node[k] = "awaitText"}
      batchOf(k) == (k - 1) \div batchSize
  IN /\ Cardinality(outstanding) <= batchSize
     /\ \A k \in issued : \A j \in 1..Len(node) :
          batchOf(j) < batchOf(k) => j \notin outstanding
     /\ \A k \in outstanding : \A j \in issued : batchOf(j) <= batchOf(k)
     /\ gen = "batch" =>
          \A k \in outstanding :
            ENABLED (\E answer \in TextAnswers(st[k].currentText) :
                       ResolveText(k, answer))

\* Two nodes of one batch were sent together; one call has resolved and its
\* node is finished while the other call is still outstanding.
C20_Witness ==
  /\ gen = "batch"
  /\ batchSize = 2
  /\ \E a, b \in Batch :
       /\ {a, b} \subseteq issued
       /\ node[a] = "awaitText"
       /\ node[b] = "done"
       /\ st[b].res.success

\* C21: an entry of a category stays in that category: no step of a session
\* removes it, whatever the order in which the nodes of a batch add terms
\* and the translateTerms calls for the category return.
C21_EntriesStay ==
  [][\A c \in 1..Len(currentTerms) :
       \A j \in 1..Len(currentTerms[c].terms) :
         /\ c <= Len(currentTerms')
         /\ \E j2 \in 1..Len(currentTerms'[c].terms) :
              currentTerms'[c].terms[j2].original
                = currentTerms[c].terms[j].original]_vars

\* C22: a step that applies a translateTerms result to a category keeps
\* every entry of every category, with its original and its template, and
\* either keeps the entry's translation or sets a non-empty one.
C22_OnlyTranslationsFilled ==
  [][((\E k \in 1..N : AssignTerms(k))
        \/ (\E answered \in SUBSET asked : AnswerAllTerms(answered))) =>
       /\ Len(currentTerms') = Len(currentTerms)
       /\ \A c \in 1..Len(currentTerms) :
            \A j \in 1..Len(currentTerms[c].terms) :
              \E j2 \in 1..Len(currentTerms'[c].terms) :
                LET old == currentTerms[c].terms[j]
                    new == currentTerms'[c].terms[j2]
                IN /\ new.original = old.original
                   /\ new.template = old.template
                   /\ new.translated = old.translated
                        \/ new.translated # <<>>]_vars

\* C23: a session on the root of the session before it, with no restore in
\* between, collects every node whose translateText call was rejected in
\* that session.
C23_FailedNodeCollectedAgain ==
  (sessions >= 2 /\ history.prevRoot = rootElement) =>
    \A failed \in history.prevFailed :
      \E k \in 1..N : textNodes[k] = failed

\* C24: once a node's translateText call has resolved and the node's step
\* is over, the element that owns the node carries the is-translated flag
\* and a stored original-content marker, whatever text the translator
\* returned (as long as nothing was restored meanwhile).
C24_TranslatedNodeIsMarked ==
  ~history.restoredIn =>
    \A k \in 1..N :
      (k \in issued /\ node[k] = "done" /\ st[k].res.success) =>
        /\ dom[history.preOwners[k]].dt = "true"
        /\ dom[history.preOwners[k]].orig # <<>>

\* C25: no step changes the stored original content of an element that
\* carries the is-translated flag before and after the step: later writes
\* under the element and re-applications of the substitutions keep it.
C25_MarkerKept ==
  [][\A e \in 1..Len(dom) :
       (dom[e].kind = "elem" /\ dom[e].dt = "true" /\ dom[e].orig # <<>>
          /\ dom'[e].dt = "true") =>
         dom'[e].orig = dom[e].orig]_vars

\* Two text nodes of one element have been written in this session, the
\* second one under an element that was marked already.
C25_Witness ==
  \E k1, k2 \in 1..N :
    /\ k1 < k2
    /\ history.preOwners[k1] = history.preOwners[k2]
    /\ node[k1] = "done" /\ node[k2] = "done"
    /\ dom[textNodes[k1]].value # history.preValues[k1]
    /\ dom[textNodes[k2]].value # history.preValues[k2]
    /\ dom[history.preOwners[k1]].dt = "true"
    /\ dom[history.preOwners[k1]].orig # <<>>
    /\ ~history.restoredIn

\* C26: with a persistence callback, every step that adds an entry to the
\* glossary or fills in an entry's empty translation invokes the callback
\* with the glossary as it is after the step.
C26_EveryChangeIsSaved ==
  [][(/\ onTermsUpdated
      /\ \E c \in 1..Len(currentTerms') :
           \E j2 \in 1..Len(currentTerms'[c].terms) :
             LET new == currentTerms'[c].terms[j2]
             IN \/ c > Len(currentTerms)
                \/ \A j \in 1..Len(currentTerms[c].terms) :
                     currentTerms[c].terms[j].original # new.original
                \/ /\ new.translated # <<>>
                   /\ \E j \in 1..Len(currentTerms[c].terms) :
                        /\ currentTerms[c].terms[j].original = new.original
                        /\ currentTerms[c].terms[j].translated = <<>>)
       => history'.saved = currentTerms']_vars

\* C27: the snapshot after the initial one that is emitted j-th reports the
\* result of the j-th collected node, so within a batch the snapshots
\* follow the node order whatever the order in which the calls settled;
\* the counts go up from 0 in steps of one, never exceed the total, and
\* reach N when the session returns.
C27_SnapshotsInNodeOrder ==
  /\ \A j \in 1..Len(progress) :
       /\ progress[j].current = j - 1
       /\ progress[j].current <= progress[j].total
       /\ j >= 2 =>
            /\ node[j - 1] = "done"
            /\ progress[j].currentText = st[j - 1].res.currentText
            /\ progress[j].translatedText = st[j - 1].res.translatedText
            /\ progress[j].error = st[j - 1].res.error
  /\ gen = "returned" => progress[Len(progress)].current = N

\* A session has returned in which a node settled before an earlier node
\* of its batch, the two with different results.
C27_Witness ==
  /\ gen = "returned"
  /\ history.outOfOrder
  /\ N >= 3
  /\ st[1].res.translatedText # st[2].res.translatedText
  /\ progress[2].translatedText = st[1].res.translatedText
  /\ progress[3].translatedText = st[2].res.translatedText

\* C28: translateTerms is called in the final pass only when every node is
\* done and all N node snapshots are out; a session that returns has sent
\* exactly the categories that held an entry without translation when the
\* pass began; and the document it leaves is the one the re-application of
\* the final glossary under the root produces.
C28_FinalPass ==
  /\ (gen = "awaitAllTerms" \/ history.sent # {}) =>
       /\ \A k \in 1..N : node[k] = "done"
       /\ Len(progress) = N + 1
  /\ gen = "returned" =>
       history.sent =
         {c \in 1..Len(history.passTerms) :
            untranslatedOriginals(history.passTerms[c].terms) # {}}
  /\ history.phase \in {"completed", "disturbed"} =>
       dom = applyTermsReplacementToAllNodes(dom, rootElement, currentTerms)

\* A session has returned after a final pass that sent a seed category and
\* General, and filled in a translation that a written node shows.
C28_Witness ==
  /\ history.phase = "completed"
  /\ Cardinality(history.sent) = 2
  /\ N >= 2
  /\ \E c \in history.sent :
       /\ currentTerms[c].name = "General"
       /\ untranslatedOriginals(currentTerms[c].terms) = {}
  /\ \E k \in 1..N : dom[textNodes[k]].value = <<"t", "z", "X">>

\* C29: a category whose translateTerms call was rejected in the final pass
\* holds the entries it held when the pass began; the pass goes on, so a
\* session that returns has sent every later category that held an entry
\* without translation; and after a rejection the generator is in its
\* final pass or has returned its result, never ended without one.
C29_RejectedCategory ==
  \A c \in history.failed :
    /\ c \in history.sent
    /\ currentTerms[c] = history.passTerms[c]
    /\ gen = "returned" =>
         \A c2 \in (c + 1)..Len(history.passTerms) :
           untranslatedOriginals(history.passTerms[c2].terms) # {} =>
             c2 \in history.sent
    /\ gen \in {"allTerms", "awaitAllTerms", "returned"}
    /\ gen = "allTerms" => category > c

\* A session has returned its result after the call for the seed category
\* was rejected and the call for General, a later category, was answered.
C29_Witness ==
  /\ gen = "returned"
  /\ history.phase = "completed"
  /\ history.failed = {1}
  /\ history.sent = {1, 2}
  /\ untranslatedOriginals(currentTerms[1].terms) # {}
  /\ untranslatedOriginals(history.passTerms[2].terms) # {}
  /\ untranslatedOriginals(currentTerms[2].terms) = {}

\* C30: after the persistence callback rejected for a node, the glossary
\* holds every term the node reported; the node goes on, and once it is
\* done (nothing restored meanwhile) its result is a success, its text is
\* written and its owning element carries the flag and the stored
\* original; the generator has not ended without a result unless it was
\* stopped.
C30_SaveRejected ==
  \A rejection \in history.saveRejected :
    LET k == rejection[1]
    IN /\ \A original \in rejection[2] :
            \E c \in 1..Len(currentTerms) :
              \E j \in 1..Len(currentTerms[c].terms) :
                currentTerms[c].terms[j].original = original
       /\ node[k] \in {"afterAdd", "awaitTerms", "termsReturned", "afterTerms",
                       "done"}
       /\ (/\ node[k] = "done"
           /\ ~history.restoredIn
           /\ history.phase \in {"running", "cancelled", "completed"}) =>
            /\ st[k].res.success
            /\ dom[textNodes[k]].value # history.preValues[k]
            /\ dom[history.preOwners[k]].dt = "true"
            /\ dom[history.preOwners[k]].orig # <<>>
       /\ gen = "cancelled" => history.stopAt # 0

\* C31: a session that has begun and not yet returned its result can
\* always move on by what the claim grants: a Translator call is
\* outstanding and will settle, or the generator or a node's promise is
\* ready to run, or a batch is settled and the consumer asks for the next
\* snapshot.  As every step of a session advances it towards its end, the
\* session then returns.
C31_SessionReturns ==
  \/ gen \in {"none", "returned"}
  \/ gen \in {"loop", "allTerms", "awaitAllTerms"}
  \/ /\ gen = "batch"
     /\ \/ \E k \in Batch : node[k] \in {"awaitText", "awaitTerms"}
        \/ \E k \in Batch : node[k] \in {"afterAdd", "termsReturned",
                                          "afterTerms"}
        \/ \A k \in Batch : node[k] = "done"

\* C32: for a text whose placeholders are templates of glossary entries,
\* the text applyTermsReplacement returns is the given text with the
\* placeholder of every entry that has a translation other than its
\* original replaced by that translation, the entry found by its template
\* without the braces, and with every other placeholder as it was written.
C32_Substitution ==
  (/\ rendered # <<>>
   /\ \A k \in 1..Len(given) :
        given[k].id # <<>> =>
          \E c \in 1..Len(currentTerms) :
            \E j \in 1..Len(currentTerms[c].terms) :
              currentTerms[c].terms[j].template = given[k].text) =>
    LET name(entry) == removeAll(removeAll(entry.template, OpenBraces), CloseBraces)
        used(entry) == entry.translated # <<>> /\ entry.translated # entry.original
        entries == UNION {{currentTerms[c].terms[j] :
                             j \in 1..Len(currentTerms[c].terms)} :
                          c \in 1..Len(currentTerms)}
        out(piece) ==
          IF \E entry \in entries : used(entry) /\ name(entry) = piece.id
          THEN (CHOOSE entry \in entries :
                  used(entry) /\ name(entry) = piece.id).translated
          ELSE piece.text
        RECURSIVE substituted(_)
        substituted(pieces) ==
          IF pieces = <<>> THEN <<>>
          ELSE out(Head(pieces)) \o substituted(Tail(pieces))
    IN rendered = substituted(given)

\* C33: a text node that lies under root is among the nodes
\* collectTextNodes(root) returns exactly when the tag of its parent element
\* is not in the skip set, the parent does not carry data-translation
\* "true", and its text without the surrounding whitespace is not empty and
\* holds a letter.
C33_CollectedExactlyWhenEligible ==
  rootElement # 0 =>
    \A n \in DOMAIN dom :
      (dom[n].kind = "text" /\ contains(dom, rootElement, n)) =>
        ((\E j \in 1..Len(textNodes) : textNodes[j] = n)
           <=> /\ dom[dom[n].parent].tag \notin SKIP_TAGS
               /\ dom[dom[n].parent].dt # "true"
               /\ trim(dom[n].value) # <<>>
               /\ \E k \in 1..Len(trim(dom[n].value)) :
                    trim(dom[n].value)[k] \in Letters)

\* collectTextNodes(body) has returned the text under an element marked
\* "false" and left out a sibling text of white space.
C33_Witness ==
  /\ rootElement = 1
  /\ \E j \in 1..Len(textNodes) :
       /\ dom[dom[textNodes[j]].parent].dt = "false"
       /\ dom[textNodes[j]].value = <<"B">>
  /\ \E n \in DOMAIN dom :
       /\ dom[n].kind = "text"
       /\ dom[n].value = <<" ">>
       /\ contains(dom, 1, n)
       /\ \A j \in 1..Len(textNodes) : textNodes[j] # n

\* C34: when a session ran to completion without being stopped (the body
\* of its translate() reached the return statement, and the call of
\* handleStartTranslation that made it has finished), the content script
\* has sent saveTerms with the glossary of the engine's result and, after
\* it, translationComplete carrying that result.
C34_CompletionSendsResult ==
  \A h \in Handlers :
    ( /\ script.handler[h] = "done"
      /\ script.generator[h].returned
      /\ h \notin script.stopped )
    => \E a, b \in 1..Len(script.sent) :
         /\ a < b
         /\ script.sent[a] = Message("saveTerms", h, TranslationResult(h))
         /\ script.sent[b] = Message("translationComplete", h, TranslationResult(h))

\* C35: once a stopTranslation message has stopped a session, the call of
\* handleStartTranslation that made it never calls return() on the
\* generator of a session started afterwards, never clears the
\* isTranslating flag that such a session set, and never sends
\* translationComplete.  Stated for the runs in which every
\* startTranslation message arrived while no earlier call was loading the
\* stored terms or translating unstopped.
C35_StoppedSessionKeepsOut ==
  script.overlapped = {} =>
    \A h \in script.stopped :
      /\ \A g \in Handlers \ {h} : h \notin script.generator[g].returnedBy
      /\ \A pair \in script.cleared : pair[1] = h => pair[2] = h
      /\ \A k \in 1..Len(script.sent) :
           ~ ( /\ script.sent[k].action = "translationComplete"
               /\ script.sent[k].by = h )

\* C36: a startTranslation message that arrives while an earlier call is
\* loading the stored terms, or while its session translates unstopped,
\* creates no session: the generator of its call is never made.
C36_OneSessionAtOnce ==
  \A h \in script.overlapped : script.generator[h].state = "none"

\* C37: translate(root) and restoreOriginalText(root) leave every element
\* that is neither root nor inside root as it is: the element keeps its
\* children and the text of its text children, its data-translation
\* attribute and its data-original-text attribute.  The elements meant
\* are those of the document; a node that was taken out of it is none.  For
\* restoreOriginalText this is stated of every root it may be called with
\* in the current document, for translate of every step of a session.
C37_OutsideRootUntouched ==
  [][ LET outside(d, r, e) ==
            /\ d[e].kind = "elem"
            /\ e = Body \/ contains(d, Body, e)
            /\ e # r
            /\ ~contains(d, r, e)
          same(d, after, e) ==
            /\ after[e].kids = d[e].kids
            /\ after[e].dt = d[e].dt
            /\ after[e].orig = d[e].orig
            /\ \A k \in 1..Len(d[e].kids) :
                 d[d[e].kids[k]].kind = "text"
                   => after[d[e].kids[k]].value = d[d[e].kids[k]].value
      IN  /\ \A r \in Roots : \A e \in 1..Len(dom) :
               outside(dom, r, e) => same(dom, restoreOriginalText(dom, r), e)
          /\ (restores' = restores /\ rootElement' # 0)
               => \A e \in 1..Len(dom) :
                    outside(dom, rootElement', e) => same(dom, dom', e)
    ]_vars

\* C38: when two saveTerms requests for two different domains have both
\* been handled to the end, the store holds for each of the two domains
\* the glossary its request carried, whether the two were handled one
\* after the other or at once; a request for a domain leaves the entry of
\* every other domain as it was.
C38_BothDomainsSaved ==
  \A r1, r2 \in SaveRequests :
    ( /\ background.request[r1].at = "done"
      /\ background.request[r2].at = "done"
      /\ background.request[r1].domain # ""
      /\ background.request[r2].domain # ""
      /\ background.request[r1].domain # background.request[r2].domain )
    => /\ background.translationTermsByDomain[background.request[r1].domain]
            = background.request[r1].terms
       /\ background.translationTermsByDomain[background.request[r2].domain]
            = background.request[r2].terms

====
